---- MODULE Spec2Model ----
(***************************************************************************)
(* StockControl: the point-in-time weighted-average costing query          *)
(* (StockCostViewSet.list of inventory/api.py, present in the repository   *)
(* as compiled CPython 3.10 bytecode) over the ledger of Entrada / Saida   *)
(* transactions written by the transaction form of the frontend.           *)
(*                                                                         *)
(* Units: quantidade is a whole number of units, valor_unit a whole number *)
(* of cents.  A Decimal quotient is kept to DecimalScale-ths of a cent,    *)
(* rounded half-even as the decimal module rounds; unit_cost and           *)
(* total_cost are therefore in 1/DecimalScale cent.                        *)
(* A date is a record [y, m, d]; an optional value (None / NULL) is a set  *)
(* of at most one element.                                                 *)
(***************************************************************************)
EXTENDS Integers, Sequences, FiniteSets

\* ---- bounds of the model ------------------------------------------------
MaxLedger == 2
MaxQty == 2
MaxValue == 2
MaxDay == 2
DecimalScale == 1000
MaxLater == 2
MaxClients == 2
MaxExitLedger == 3
MaxUnitValue == 3
MinYear == 1900
MaxYear == 2100
Year == 2024

VARIABLES
    items,    \* Item registry: sequence of Item rows, in the registry's order
    ledger,   \* Transacao rows in creation order (id_transacao = position)
    call,     \* the last StockCostViewSet.list call: request and Response
    kept,     \* an earlier call remembered with the store it ran against
    run,      \* per client, a StockCostViewSet.list call in progress, query by query
    ui        \* the frontend: logger, menu, forms and filters

vars == <<items, ledger, call, kept, run, ui>>

\* ---- characters and strings (a string is a sequence of characters) -------
Lower(c) ==
    CASE c = "A" -> "a"
      [] c = "B" -> "b"
      [] c = "N" -> "n"
      [] OTHER -> c

\* Django's __icontains lookup: case-insensitive substring containment.
IContains(s, sub) ==
    \E i \in 0..(Len(s) - Len(sub)) :
        \A j \in 1..Len(sub) : Lower(s[i + j]) = Lower(sub[j])

SkuA == <<"A", "0", "0", "1">>
SkuB == <<"B", "0", "0", "2">>
Skus == {SkuA, SkuB}

\* ---- dates ----------------------------------------------------------------
Date(y, m, d) == [y |-> y, m |-> m, d |-> d]

IsLeap(y) == (y % 4 = 0 /\ y % 100 # 0) \/ y % 400 = 0

DaysInMonth(y, m) ==
    CASE m \in {4, 6, 9, 11} -> 30
      [] m = 2 -> IF IsLeap(y) THEN 29 ELSE 28
      [] OTHER -> 31

\* (a variant of DateLte that leaves out the day itself)
DateLteStrict(a, b) ==
    \/ a.y < b.y
    \/ a.y = b.y /\ a.m < b.m
    \/ a.y = b.y /\ a.m = b.m /\ a.d < b.d

\* date <= date, as the __lte lookups compare DateField values
DateLte(a, b) ==
    \/ a.y < b.y
    \/ a.y = b.y /\ a.m < b.m
    \/ a.y = b.y /\ a.m = b.m /\ a.d <= b.d

\* The stockDate query parameter: absent (or empty), a string of the form
\* Y-M-D with numeric fields, or any other text (for instance DD/MM/YYYY).
NoParam == [kind |-> "absent", y |-> 0, m |-> 0, d |-> 0]
YmdParam(y, m, d) == [kind |-> "ymd", y |-> y, m |-> m, d |-> d]
TextParam == [kind |-> "text", y |-> 0, m |-> 0, d |-> 0]

\* datetime.strptime(s, '%Y-%m-%d').date(): the set holding the date, or the
\* empty set when strptime raises ValueError.
Strptime(p) ==
    IF /\ p.kind = "ymd"
       /\ p.y >= 1 /\ p.m \in 1..12
       /\ p.d >= 1 /\ p.d <= DaysInMonth(p.y, p.m)
    THEN {Date(p.y, p.m, p.d)}
    ELSE {}

\* ---- the store -------------------------------------------------------------
Item(sku, desc, um, act) ==
    [cod_sku |-> sku, descricao_item |-> desc, unid_medida |-> um, active |-> act]

Registry ==
    << Item(SkuA, <<"N", "u", "t">>, "un", TRUE),
       Item(SkuB, <<"b", "o", "l", "t">>, "kg", FALSE) >>

\* A Transacao row with its Entrada or Saida row: tipo tells which of the two
\* relations (entradas / saidas) exists, data is data_entrada or data_saida.
Transacao(id, sku, tipo, q, v, dt) ==
    [id_transacao |-> id, cod_sku |-> sku, tipo |-> tipo,
     quantidade |-> q, valor_unit |-> v, data |-> dt]

\* (a variant of Indices that takes the rows of every date)
IndicesAnyDate(tipo, dt) ==
    {i \in 1..Len(ledger) : ledger[i].tipo = tipo}

Indices(tipo, dt) ==
    {i \in 1..Len(ledger) : ledger[i].tipo = tipo /\ DateLte(ledger[i].data, dt)}

IndicesOf(sku, tipo, dt) ==
    {i \in Indices(tipo, dt) : ledger[i].cod_sku = sku}

\* SQL SUM('quantidade') and SUM(F('valor_unit') * F('quantidade')) over the
\* rows at the indices S; SUM over no rows is NULL (the empty set).
RECURSIVE SumQuantidade(_)
SumQuantidade(S) ==
    IF S = {} THEN 0
    ELSE LET i == CHOOSE x \in S : TRUE
         IN  ledger[i].quantidade + SumQuantidade(S \ {i})

\* (a variant of SumValor that leaves out the quantities)
RECURSIVE SumValorUnit(_)
SumValorUnit(S) ==
    IF S = {} THEN 0
    ELSE LET i == CHOOSE x \in S : TRUE
         IN  ledger[i].valor_unit + SumValorUnit(S \ {i})

RECURSIVE SumValor(_)
SumValor(S) ==
    IF S = {} THEN 0
    ELSE LET i == CHOOSE x \in S : TRUE
         IN  ledger[i].valor_unit * ledger[i].quantidade + SumValor(S \ {i})

Null == {}
Some(x) == {x}
ValueOf(opt) == CHOOSE x \in opt : TRUE

Coalesce(opt, dflt) == IF opt = Null THEN dflt ELSE ValueOf(opt)

\* Transacao.objects.filter(<rel>__data__lte=stock_date).values('cod_sku')
\*     .annotate(total=Sum('quantidade')): one row per cod_sku that has a
\* matching transaction.
GroupTotals(tipo, stock_date) ==
    { [cod_sku |-> sku, total |-> SumQuantidade(IndicesOf(sku, tipo, stock_date))] :
        sku \in {ledger[i].cod_sku : i \in Indices(tipo, stock_date)} }

\* next((e for e in rows if e['cod_sku'] == item.cod_sku), {'total': 0})
NextTotal(rows, sku) ==
    IF \E e \in rows : e.cod_sku = sku
    THEN (CHOOSE e \in rows : e.cod_sku = sku).total
    ELSE 0

\* Transacao.objects.filter(cod_sku=..., <rel>__isnull=False,
\*     <rel>__data__lte=stock_date).aggregate(qtde_total=..., valor_total=...)
Aggregate(sku, tipo, stock_date) ==
    LET S == IndicesOf(sku, tipo, stock_date)
    IN  [qtde_total  |-> Coalesce(IF S = {} THEN Null ELSE Some(SumQuantidade(S)), 0),
         valor_total |-> Coalesce(IF S = {} THEN Null ELSE Some(SumValor(S)), 0)]

\* (a variant of DecimalDiv that truncates instead of rounding)
DecimalDivTruncated(n, d) == (n * DecimalScale) \div d

\* Decimal division n / d for d > 0, to DecimalScale-ths, rounded half-even.
DecimalDiv(n, d) ==
    LET num == n * DecimalScale
        q == num \div d
        r == num % d
    IN  IF 2 * r < d THEN q
        ELSE IF 2 * r > d THEN q + 1
        ELSE IF q % 2 = 0 THEN q ELSE q + 1

\* (a variant of CustoMedio that leaves the value undivided when there is no
\* positive quantity to divide by)
CustoMedioResidue(estoque_atual, valor_estoque_atual) ==
    IF estoque_atual > 0
    THEN DecimalDiv(valor_estoque_atual, estoque_atual)
    ELSE valor_estoque_atual * DecimalScale

\* (a variant of CustoMedio that divides for every non-zero estoque_atual)
CustoMedioNonZero(estoque_atual, valor_estoque_atual) ==
    IF estoque_atual > 0
    THEN DecimalDiv(valor_estoque_atual, estoque_atual)
    ELSE IF estoque_atual < 0
    THEN DecimalDiv(-valor_estoque_atual, -estoque_atual)
    ELSE 0

\* custo_medio: the division only for a positive estoque_atual, else Decimal(0)
CustoMedio(estoque_atual, valor_estoque_atual) ==
    IF estoque_atual > 0
    THEN DecimalDiv(valor_estoque_atual, estoque_atual)
    ELSE 0

\* (a variant of CustoUltimaEntrada that orders by the date, then the id)
CustoUltimaEntradaByDate(sku, stock_date) ==
    LET S == IndicesOf(sku, "entrada", stock_date)
        Later(i, j) == \/ DateLte(ledger[j].data, ledger[i].data) /\ ledger[j].data # ledger[i].data
                       \/ ledger[j].data = ledger[i].data /\ j <= i
    IN  IF S = {} THEN Null
        ELSE Some(ledger[CHOOSE i \in S : \A j \in S : Later(i, j)])

\* .order_by('-id_transacao').first() over the item's entradas up to stock_date
CustoUltimaEntrada(sku, stock_date) ==
    LET S == IndicesOf(sku, "entrada", stock_date)
    IN  IF S = {} THEN Null
        ELSE Some(ledger[CHOOSE i \in S : \A j \in S : ledger[j].id_transacao <= ledger[i].id_transacao])

\* (a variant of EstoqueAtual with the sign of the exits wrong)
EstoqueAtualSum(entradas_aggregate, saidas_aggregate) ==
    entradas_aggregate.qtde_total + saidas_aggregate.qtde_total

\* estoque_atual = entradas_qtde - saidas_qtde
EstoqueAtual(entradas_aggregate, saidas_aggregate) ==
    entradas_aggregate.qtde_total - saidas_aggregate.qtde_total

\* (a variant of ValorEstoqueAtual that values the exits at nothing)
ValorEstoqueEntradas(entradas_aggregate, saidas_aggregate) ==
    entradas_aggregate.valor_total

\* valor_estoque_atual = entradas_valor - saidas_valor
ValorEstoqueAtual(entradas_aggregate, saidas_aggregate) ==
    entradas_aggregate.valor_total - saidas_aggregate.valor_total

\* total_cost = custo_medio * estoque_atual
TotalCost(custo_medio, estoque_atual) == custo_medio * estoque_atual

\* (a variant of LastEntryCost that reports 0 for no entry)
LastEntryCostZero(custo_ultima_entrada) ==
    IF custo_ultima_entrada # Null
    THEN Some(ValueOf(custo_ultima_entrada).valor_unit)
    ELSE Some(0)

\* 'last_entry_cost': float(custo_ultima_entrada.valor_unit)
\*                        if custo_ultima_entrada else None
LastEntryCost(custo_ultima_entrada) ==
    IF custo_ultima_entrada # Null
    THEN Some(ValueOf(custo_ultima_entrada).valor_unit)
    ELSE Null

\* The item_data dict built from the results of the three queries of one item.
ItemDataOf(item, entradas_aggregate, saidas_aggregate, custo_ultima_entrada) ==
    LET estoque_atual == EstoqueAtual(entradas_aggregate, saidas_aggregate)
        valor_estoque_atual == ValorEstoqueAtual(entradas_aggregate, saidas_aggregate)
        custo_medio == CustoMedio(estoque_atual, valor_estoque_atual)
    IN  [sku |-> item.cod_sku,
         description |-> item.descricao_item,
         quantity |-> estoque_atual,
         unity_measure |-> item.unid_medida,
         unit_cost |-> custo_medio,
         total_cost |-> TotalCost(custo_medio, estoque_atual),
         active |-> item.active,
         last_entry_cost |-> LastEntryCost(custo_ultima_entrada)]

\* The item_data dict built for one item of items_query, the three queries
\* answered from one state of the ledger.
ItemData(item, stock_date) ==
    ItemDataOf(item,
               Aggregate(item.cod_sku, "entrada", stock_date),
               Aggregate(item.cod_sku, "saida", stock_date),
               CustoUltimaEntrada(item.cod_sku, stock_date))

\* quantidade of the first pass (the grouped totals), which decides hasStock
QuantidadeOf(item, stock_date) ==
    NextTotal(GroupTotals("entrada", stock_date), item.cod_sku)
        - NextTotal(GroupTotals("saida", stock_date), item.cod_sku)

\* (a variant of Skipped that skips only the quantity 0)
SkippedOnlyZero(has_stock, quantidade) == has_stock /\ quantidade = 0

\* if has_stock and quantidade <= 0: continue
Skipped(has_stock, quantidade) == has_stock /\ quantidade <= 0

\* items_query: Item.objects.all() narrowed by the sku, description and active
\* filters (an empty filter string narrows nothing).
ItemMatches(item, req) ==
    /\ req.sku = <<>> \/ IContains(item.cod_sku, req.sku)
    /\ req.description = <<>> \/ IContains(item.descricao_item, req.description)
    /\ ~req.active \/ item.active

RECURSIVE SelectItems(_, _)
SelectItems(its, req) ==
    IF its = <<>> THEN <<>>
    ELSE (IF ItemMatches(Head(its), req) THEN <<Head(its)>> ELSE <<>>)
             \o SelectItems(Tail(its), req)

\* the loop over items_query appending item_data to result
RECURSIVE BuildResult(_, _, _)
BuildResult(items_query, has_stock, stock_date) ==
    IF items_query = <<>> THEN <<>>
    ELSE LET item == Head(items_query)
             rest == BuildResult(Tail(items_query), has_stock, stock_date)
         IN  IF Skipped(has_stock, QuantidadeOf(item, stock_date))
             THEN rest
             ELSE <<ItemData(item, stock_date)>> \o rest

\* ---- requests and responses ----------------------------------------------
Request(stockDate, sku, description, hasStock, active) ==
    [stockDate |-> stockDate, sku |-> sku, description |-> description,
     hasStock |-> hasStock, active |-> active]

HTTP_200_OK == 200
HTTP_400_BAD_REQUEST == 400

NoRequest == Request(NoParam, <<>>, <<>>, FALSE, FALSE)

\* No call made yet.  Besides the request and the Response a call records the
\* day it was made on when it read the clock (today) and how many Transacao rows
\* the ledger held (rows): the ledger only grows, so its first `rows` rows are
\* the ledger the call read.
NoCall ==
    [req |-> NoRequest, today |-> Null, status |-> 0, stock_date |-> Null,
     count |-> 0, results |-> <<>>, rows |-> 0]

NoKept == [call |-> NoCall, ledger |-> <<>>, items |-> <<>>, later |-> 0]

\* (a variant of StockDate that reads the clock whatever date is supplied)
StockDateClock(req, today) ==
    IF req.stockDate.kind # "absent" /\ Strptime(req.stockDate) = Null
    THEN Null
    ELSE Some(today)

\* stock_date: the parsed stockDate if one is supplied (None standing for the
\* ValueError branch), else datetime.now().date()
StockDate(req, today) ==
    IF req.stockDate.kind = "absent"
    THEN Some(today)
    ELSE Strptime(req.stockDate)

\* StockCostViewSet.list: the Response for a request made on the day `today`.
\* A stockDate that strptime rejects gives the 400 response before any query;
\* an absent or empty stockDate means datetime.now().date().
ListResponse(req, today) ==
    LET parsed == StockDate(req, today)
    IN  IF parsed = Null
        THEN [req |-> req, today |-> Null, status |-> HTTP_400_BAD_REQUEST,
              stock_date |-> Null, count |-> 0, results |-> <<>>,
              rows |-> Len(ledger)]
        ELSE LET stock_date == ValueOf(parsed)
                 result == BuildResult(SelectItems(items, req), req.hasStock, stock_date)
             IN  [req |-> req,
                  today |-> IF req.stockDate.kind = "absent" THEN Some(today) ELSE Null,
                  status |-> HTTP_200_OK,
                  stock_date |-> Some(stock_date),
                  count |-> Len(result), results |-> result,
                  rows |-> Len(ledger)]

\* ---- the list call query by query ------------------------------------------
\* Every queryset of the list is a separate query against the store as it is
\* when the query runs: items_query when the for loop starts, the two grouped
\* totals when the first item first iterates them (the queryset then keeps its
\* rows), and per item the two aggregates and the last-entry query.
Clients == 1..MaxClients

ZeroAggregate == [qtde_total |-> 0, valor_total |-> 0]

\* A call not started.  log lists the queries attempted, in order; rows0 and
\* rows1 are the lengths of the ledger when the call started and ended.
NoRun ==
    [pc |-> "idle", req |-> NoRequest, stock_date |-> Null,
     items_query |-> <<>>, entradas_transacoes |-> {}, saidas_transacoes |-> {},
     idx |-> 0, entradas_aggregate |-> ZeroAggregate, saidas_aggregate |-> ZeroAggregate,
     result |-> <<>>, response |-> Null, log |-> <<>>, rows0 |-> 0, rows1 |-> 0]

Logged(r, query, ok) ==
    [r EXCEPT !.log = Append(@, [query |-> query, idx |-> r.idx, ok |-> ok])]

\* (a variant of Raise that leaves the call where it was, to run the query again)
RaiseRetry(r, query) == Logged(r, query, FALSE)

\* a query that fails raises out of list(): nothing catches it, no Response
Raise(r, query) ==
    [Logged(r, query, FALSE) EXCEPT !.pc = "raised", !.rows1 = Len(ledger)]

\* (a variant of BeginList that evaluates items_query before parsing the date)
BeginListEager(r, req, today) ==
    LET parsed == StockDate(req, today)
        b == [Logged(r, "items_query", TRUE) EXCEPT
                 !.req = req, !.rows0 = Len(ledger), !.stock_date = parsed]
    IN  IF parsed = Null
        THEN [b EXCEPT !.pc = "returned", !.rows1 = Len(ledger),
                       !.response = Some([status |-> HTTP_400_BAD_REQUEST,
                                          count |-> 0, results |-> <<>>])]
        ELSE [b EXCEPT !.pc = "items_query"]

\* the head of list(): the stockDate is parsed first; a ValueError returns the
\* 400 Response at once
BeginList(r, req, today) ==
    LET parsed == StockDate(req, today)
        b == [r EXCEPT !.req = req, !.rows0 = Len(ledger), !.stock_date = parsed]
    IN  IF parsed = Null
        THEN [b EXCEPT !.pc = "returned", !.rows1 = Len(ledger),
                       !.response = Some([status |-> HTTP_400_BAD_REQUEST,
                                          count |-> 0, results |-> <<>>])]
        ELSE [b EXCEPT !.pc = "items_query"]

\* the loop head: the next item of items_query, from r.idx on, that the
\* hasStock test does not skip; when there is none, the Response
Proceed(r) ==
    LET n == Len(r.items_query)
        quantidade(j) == NextTotal(r.entradas_transacoes, r.items_query[j].cod_sku)
                            - NextTotal(r.saidas_transacoes, r.items_query[j].cod_sku)
        cand == {j \in r.idx..n : ~Skipped(r.req.hasStock, quantidade(j))}
    IN  IF cand = {}
        THEN [r EXCEPT !.pc = "returned", !.idx = n + 1, !.rows1 = Len(ledger),
                       !.response = Some([status |-> HTTP_200_OK,
                                          count |-> Len(r.result),
                                          results |-> r.result])]
        ELSE [r EXCEPT !.pc = "entradas_aggregate",
                       !.idx = CHOOSE j \in cand : \A k \in cand : j <= k]

\* ---- the frontend: utils/date.ts ------------------------------------------------
\* A JavaScript string is a sequence of one-character strings; undefined and null
\* are the empty set and a value v is {v}, as for None above.
DigitChars == <<"0", "1", "2", "3", "4", "5", "6", "7", "8", "9">>

IsDigit(ch) == \E i \in 1..10 : DigitChars[i] = ch

DigitValue(ch) == (CHOOSE i \in 1..10 : DigitChars[i] = ch) - 1

\* Number(s) for a string of digits
RECURSIVE Number(_)
Number(s) ==
    IF s = <<>> THEN 0
    ELSE 10 * Number(SubSeq(s, 1, Len(s) - 1)) + DigitValue(s[Len(s)])

\* String(n) for n >= 0
RECURSIVE String(_)
String(n) ==
    IF n < 10 THEN <<DigitChars[n + 1]>>
    ELSE String(n \div 10) \o <<DigitChars[(n % 10) + 1]>>

Includes(s, ch) == \E i \in 1..Len(s) : s[i] = ch

\* s.split(ch): the pieces between the occurrences of ch ('' gives [''])
RECURSIVE Split(_, _)
Split(s, ch) ==
    IF ~Includes(s, ch) THEN <<s>>
    ELSE LET i == CHOOSE k \in 1..Len(s) :
                     s[k] = ch /\ \A j \in 1..(k - 1) : s[j] # ch
         IN  <<SubSeq(s, 1, i - 1)>> \o Split(SubSeq(s, i + 1, Len(s)), ch)

\* s.padStart(2, '0')
PadStart2(s) ==
    IF Len(s) >= 2 THEN s
    ELSE IF Len(s) = 1 THEN <<"0">> \o s
    ELSE <<"0", "0">>

Undefined == <<"u", "n", "d", "e", "f", "i", "n", "e", "d">>

\* new Date(year, monthIndex, day) for 1 <= day <= 31 and 0 <= monthIndex <= 11:
\* a day past the end of the month rolls over into the next month
JsDate(year, monthIndex, day) ==
    LET dim == DaysInMonth(year, monthIndex + 1)
    IN  IF day <= dim
        THEN [getFullYear |-> year, getMonth |-> monthIndex, getDate |-> day]
        ELSE [getFullYear |-> IF monthIndex = 11 THEN year + 1 ELSE year,
              getMonth |-> (monthIndex + 1) % 12,
              getDate |-> day - dim]

\* /^\d{2}\/\d{2}\/\d{4}$/.test(s)
BrazilianDateRegex(s) ==
    /\ Len(s) = 10
    /\ s[3] = "/" /\ s[6] = "/"
    /\ \A i \in {1, 2, 4, 5, 7, 8, 9, 10} : IsDigit(s[i])

\* /^\d{4}-\d{2}-\d{2}$/.test(s)
IsoDateRegex(s) ==
    /\ Len(s) = 10
    /\ s[5] = "-" /\ s[8] = "-"
    /\ \A i \in {1, 2, 3, 4, 6, 7, 9, 10} : IsDigit(s[i])

\* the checks both validators share, on the numbers day, month, year
ValidDayMonthYear(day, month, year) ==
    IF day < 1 \/ day > 31 THEN FALSE
    ELSE IF month < 1 \/ month > 12 THEN FALSE
    ELSE IF year < MinYear \/ year > MaxYear THEN FALSE
    ELSE LET date == JsDate(year, month - 1, day)
         IN  /\ date.getDate = day
             /\ date.getMonth = month - 1
             /\ date.getFullYear = year

isValidBrazilianDate(dateStr) ==
    IF dateStr = <<>> THEN FALSE
    ELSE IF ~BrazilianDateRegex(dateStr) THEN FALSE
    ELSE LET parts == Split(dateStr, "/")
         IN  ValidDayMonthYear(Number(parts[1]), Number(parts[2]), Number(parts[3]))

\* (a variant of isValidISODate that stops after the range checks)
isValidISODateRangeOnly(dateStr) ==
    IF dateStr = <<>> THEN FALSE
    ELSE IF ~IsoDateRegex(dateStr) THEN FALSE
    ELSE LET parts == Split(dateStr, "-")
         IN  /\ Number(parts[3]) \in 1..31
             /\ Number(parts[2]) \in 1..12
             /\ Number(parts[1]) \in MinYear..MaxYear

isValidISODate(dateStr) ==
    IF dateStr = <<>> THEN FALSE
    ELSE IF ~IsoDateRegex(dateStr) THEN FALSE
    ELSE LET parts == Split(dateStr, "-")
         IN  ValidDayMonthYear(Number(parts[3]), Number(parts[2]), Number(parts[1]))

\* formatBrazilianDateToISO: a string with '-' is returned as it is; otherwise
\* [day, month, year] = split('/'); an undefined month or day makes padStart
\* throw, and the catch returns the string as it is; an undefined year is
\* interpolated as 'undefined'.
formatBrazilianDateToISO(brazilianDate) ==
    IF Includes(brazilianDate, "-") THEN brazilianDate
    ELSE LET parts == Split(brazilianDate, "/")
         IN  IF Len(parts) < 2 THEN brazilianDate
             ELSE (IF Len(parts) >= 3 THEN parts[3] ELSE Undefined)
                     \o <<"-">> \o PadStart2(parts[2])
                     \o <<"-">> \o PadStart2(parts[1])

safeFormatBrazilianDateToISO(brazilianDate) ==
    IF brazilianDate = <<>> THEN Null
    ELSE IF Includes(brazilianDate, "-") /\ isValidISODate(brazilianDate)
    THEN Some(brazilianDate)
    ELSE IF Includes(brazilianDate, "/") /\ isValidBrazilianDate(brazilianDate)
    THEN Some(formatBrazilianDateToISO(brazilianDate))
    ELSE Null

\* ---- the frontend: StockService.getStockItems ------------------------------------
\* (a variant of StockDateParam that does not pad the day and the month)
StockDateParamUnpadded(stockDate) ==
    IF stockDate = Null \/ ValueOf(stockDate) = <<>> THEN Null
    ELSE LET text == ValueOf(stockDate)
             parts == Split(text, "/")
         IN  IF Includes(text, "/") /\ Len(parts) = 3
             THEN Some(parts[3] \o <<"-">> \o parts[2] \o <<"-">> \o parts[1])
             ELSE Some(text)

\* the stockDate query parameter getStockItems appends, if it appends one:
\* d is filters.stockDate, rearranged when it has '/' and splits in three
StockDateParam(stockDate) ==
    IF stockDate = Null \/ ValueOf(stockDate) = <<>> THEN Null
    ELSE LET text == ValueOf(stockDate)
             parts == Split(text, "/")
         IN  IF Includes(text, "/") /\ Len(parts) = 3
             THEN Some(parts[3] \o <<"-">> \o PadStart2(parts[2])
                          \o <<"-">> \o PadStart2(parts[1]))
             ELSE Some(text)

\* an optional boolean filter as String(value), appended unless undefined
BooleanParam(flag) ==
    IF flag = Null THEN Null
    ELSE Some(IF ValueOf(flag) THEN "true" ELSE "false")

\* the URLSearchParams of the GET /api/v1/stocks/ request
StockParams(page, f) ==
    LET codSku == f.codSku
        descricaoItem == f.descricaoItem
    IN  [page |-> String(page),
         codSku |-> IF codSku = <<>> THEN Null ELSE Some(codSku),
         descricaoItem |-> IF descricaoItem = <<>> THEN Null ELSE Some(descricaoItem),
         stockDate |-> StockDateParam(f.stockDate),
         showOnlyStockItems |-> BooleanParam(f.showOnlyStockItems),
         showOnlyActiveItems |-> BooleanParam(f.showOnlyActiveItems)]

StockFilters(codSku, descricaoItem, stockDate, showOnlyStockItems, showOnlyActiveItems) ==
    [codSku |-> codSku, descricaoItem |-> descricaoItem, stockDate |-> stockDate,
     showOnlyStockItems |-> showOnlyStockItems, showOnlyActiveItems |-> showOnlyActiveItems]

NoStockFilters == StockFilters(<<>>, <<>>, Null, Null, Null)

\* ---- the frontend: SideMenu.vue ---------------------------------------------------
\* A user as the menu reads it: isMaster and permissionsList (a set here: only
\* includes() is asked of it).
User(isMaster, permissionsList) ==
    [isMaster |-> isMaster, permissionsList |-> permissionsList]

\* (a variant of hasPermission without the master rule)
hasPermissionListOnly(currentUser, permission) ==
    IF currentUser = Null THEN FALSE
    ELSE permission \in ValueOf(currentUser).permissionsList

hasPermission(currentUser, permission) ==
    IF currentUser = Null THEN FALSE
    ELSE IF ValueOf(currentUser).isMaster THEN TRUE
    ELSE permission \in ValueOf(currentUser).permissionsList

\* the MenuItem elements of the template, with the permission of their v-if
\* (none for Logout)
MenuItems ==
    << [to |-> "/", permission |-> Some("home")],
       [to |-> "/estoques", permission |-> Some("estoques")],
       [to |-> "/registrar-transacao", permission |-> Some("registrar_transacao")],
       [to |-> "/consultar-transacoes", permission |-> Some("consultar_transacoes")],
       [to |-> "/custos", permission |-> Some("custos_estoque")],
       [to |-> "/itens", permission |-> Some("cadastro_itens")],
       [to |-> "/fornecedores", permission |-> Some("suppliers")],
       [to |-> "/usuarios", permission |-> Some("cadastro_usuarios")],
       [to |-> "/logout", permission |-> Null] >>

\* the routes of the MenuItem elements rendered for the current user
Rendered(currentUser) ==
    {MenuItems[i].to : i \in {k \in 1..Len(MenuItems) :
        \/ MenuItems[k].permission = Null
        \/ hasPermission(currentUser, ValueOf(MenuItems[k].permission))}}

\* ---- the frontend: Logger -----------------------------------------------------------
LogLevel == [DEBUG |-> 0, INFO |-> 1, WARN |-> 2, ERROR |-> 3, NONE |-> 4]

\* the level the constructor sets
InitialLevel(isProduction) == IF isProduction THEN LogLevel.ERROR ELSE LogLevel.DEBUG

\* `[${context}] ${message}` of a context logger; a message is a sequence of
\* its parts
ContextMessage(context, message) == <<context>> \o message

\* what a logging method writes, if its level test passes: the console method
\* called and the prefixed message
ConsoleWrite(level, threshold, method, prefix, message) ==
    IF level <= threshold
    THEN Some([method |-> method, text |-> <<prefix>> \o message])
    ELSE Null

\* ---- composables/useTransactionForm.ts ---------------------------------------
\* Costs are numbers of cents.  A cost lookup is asynchronous: it is in flight
\* from the call until its last response, and the caller's assignment to
\* form.unitCost happens when that response arrives.
MaxPending == 2

Products ==
    {[codSku |-> Registry[i].cod_sku, descricaoItem |-> Registry[i].descricao_item] :
        i \in 1..Len(Registry)}

Suppliers == {[codFornecedor |-> 1, nomeFornecedor |-> <<"A", "c", "m", "e">>]}

\* what the server holds for each SKU: the row of the stock-cost list and the
\* custoMedio of the item endpoint
ServerCosts ==
    [sku \in Skus |->
        IF sku = SkuA THEN [unitCost |-> 2, lastEntryCost |-> 5]
                      ELSE [unitCost |-> 3, lastEntryCost |-> 4]]

\* how a request can end: rejected, answered without the value (custoMedio
\* undefined / results empty), answered with the value
Outcomes == {"error", "empty", "value"}

\* useTransactionForm(initialForm, transaction): the refs after construction
TransactionForm(initialForm, transaction) ==
    [isEditMode |-> transaction # Null,
     isEntry |-> initialForm.isEntry,
     supplierId |-> Null,
     supplierName |-> Null,
     codNf |-> <<>>,
     sku |-> initialForm.sku,
     product |-> initialForm.product,
     quantity |-> initialForm.quantity,
     unitCost |-> initialForm.unitCost,
     selectedSupplier |-> Null,
     selectedProduct |-> Null,
     loadingCost |-> FALSE,
     pending |-> <<>>,
     looked |-> [sku \in Skus |-> Null],
     cleared |-> FALSE]

DefaultForm == [isEntry |-> TRUE, sku |-> <<>>, product |-> <<>>, quantity |-> 0, unitCost |-> 0]

\* the await of getAverageCost / getLastEntryCost: the lookup is in flight and
\* remembers the SKU it was called with and who awaits it
Await(f, fn, caller) ==
    [f EXCEPT !.loadingCost = TRUE,
              !.pending = Append(@, [fn |-> fn, caller |-> caller, sku |-> f.sku,
                                     request |-> IF fn = "getAverageCost" THEN "custo-medio"
                                                 ELSE "getStockCosts"])]

\* updateCostForProduct: the type is read before awaiting
updateCostForProduct(f) ==
    IF f.sku = <<>> \/ f.isEditMode THEN f
    ELSE IF ~f.isEntry THEN Await(f, "getAverageCost", "updateCostForProduct")
    ELSE Await(f, "getLastEntryCost", "updateCostForProduct")

updateUnitCostForOutput(f) ==
    IF f.sku # <<>> THEN Await(f, "getAverageCost", "updateUnitCostForOutput") ELSE f

RemoveAt(s, i) == [j \in 1..(Len(s) - 1) |-> IF j < i THEN s[j] ELSE s[j + 1]]

\* the value a lookup returns when its request ends with the outcome: Null while
\* getAverageCost goes on to its second request
Returned(l, outcome) ==
    IF l.fn = "getAverageCost" /\ l.request = "custo-medio"
    THEN IF outcome = "value" THEN Some(ServerCosts[l.sku].unitCost) ELSE Null
    ELSE IF outcome # "value" THEN Some(0)
    ELSE IF l.fn = "getAverageCost" THEN Some(ServerCosts[l.sku].unitCost)
    ELSE Some(ServerCosts[l.sku].lastEntryCost)

\* the caller's continuation after the await
Resume(f, l, value) ==
    IF l.fn = "getAverageCost"
    THEN [f EXCEPT !.unitCost = value, !.looked[l.sku] = Some(value)]
    ELSE IF value > 0 THEN [f EXCEPT !.unitCost = value] ELSE f

\* ---- TransactionsFilters.vue over BaseFilterForm.vue --------------------------
\* getCurrentBrazilianDate() on the day today
getCurrentBrazilianDate(today) ==
    PadStart2(String(today.d)) \o <<"/">> \o PadStart2(String(today.m)) \o <<"/">>
        \o String(today.y)

FiltersToday == Date(Year, 1, MaxDay)

\* the local filter state of TransactionsFilters as it is created
DefaultFilters ==
    [transactionsDateFrom |-> getCurrentBrazilianDate(FiltersToday),
     transactionsDateTo |-> getCurrentBrazilianDate(FiltersToday),
     itemSKU |-> <<>>,
     itemDescription |-> <<>>,
     notaFiscal |-> <<>>,
     showInUSD |-> FALSE]

UpdateModelValue(value) == [e |-> "update:modelValue", value |-> Some(value)]
Search == [e |-> "search", value |-> Null]

\* onSearch without the validation of transactionsDateTo
onSearchFromOnly(filters) ==
    LET convertedFrom == safeFormatBrazilianDateToISO(filters.transactionsDateFrom)
        convertedTo == safeFormatBrazilianDateToISO(filters.transactionsDateTo)
        withFrom == IF filters.transactionsDateFrom # <<>>
                    THEN [filters EXCEPT !.transactionsDateFrom = ValueOf(convertedFrom)]
                    ELSE filters
        convertedFilters == IF convertedTo # Null
                            THEN [withFrom EXCEPT !.transactionsDateTo = ValueOf(convertedTo)]
                            ELSE withFrom
    IN IF filters.transactionsDateFrom # <<>> /\ convertedFrom = Null THEN <<>>
       ELSE <<UpdateModelValue(convertedFilters), Search>>

\* what onSearch emits, in order, for the filters it finds
onSearch(filters) ==
    LET convertedFrom == safeFormatBrazilianDateToISO(filters.transactionsDateFrom)
        convertedTo == safeFormatBrazilianDateToISO(filters.transactionsDateTo)
        withFrom == IF filters.transactionsDateFrom # <<>>
                    THEN [filters EXCEPT !.transactionsDateFrom = ValueOf(convertedFrom)]
                    ELSE filters
        convertedFilters == IF filters.transactionsDateTo # <<>>
                            THEN [withFrom EXCEPT !.transactionsDateTo = ValueOf(convertedTo)]
                            ELSE withFrom
    IN IF filters.transactionsDateFrom # <<>> /\ convertedFrom = Null THEN <<>>
       ELSE IF filters.transactionsDateTo # <<>> /\ convertedTo = Null THEN <<>>
       ELSE <<UpdateModelValue(convertedFilters), Search>>

\* what watch(filters) emits when the filters have been replaced
watchFilters(newValue) == <<UpdateModelValue(newValue)>>

\* ---- composables/useSideMenu.ts ---------------------------------------------------
\* Refs are cells of a heap (a sequence of values); the module creates its ref
\* when it is loaded, so that ref is the first cell.
MaxRefs == 3
MaxCalls == 4

\* const isExpanded = ref(false), at module level
ModuleHeap == <<FALSE>>

\* useSideMenu() creating a ref of its own on every call
useSideMenuOwnRef(heap) == [heap |-> Append(heap, FALSE), isExpanded |-> Len(heap) + 1]

\* useSideMenu(): the heap after the call and the ref that the result holds
useSideMenu(heap) == [heap |-> heap, isExpanded |-> 1]

toggleExpansion(heap, isExpanded) == [heap EXCEPT ![isExpanded] = ~heap[isExpanded]]

expand(heap, isExpanded) == [heap EXCEPT ![isExpanded] = TRUE]

collapse(heap, isExpanded) == [heap EXCEPT ![isExpanded] = FALSE]

\* the components that call useSideMenu() in their setup
MenuUsers == {"SideMenu", "PageContainer"}

\* ---- views/LoginView.vue ----------------------------------------------------------
LoginPath == "/login"
HomePath == "/"

InvalidCredentialsMessage == "Usuario ou senha invalidos. Por favor, tente novamente."
NetworkErrorMessage ==
    "Nao foi possivel conectar ao servidor. Verifique sua conexao e tente novamente."
GenericLoginErrorMessage == "Ocorreu um erro ao tentar fazer login. Por favor, tente novamente."

HTTP_401_UNAUTHORIZED == 401

\* s.includes(t) for strings given as sequences of characters
IncludesText(s, t) ==
    \E i \in 1..(Len(s) - Len(t) + 1) : SubSeq(s, i, i + Len(t) - 1) = t

NetworkErrorText == <<"N", "e", "t", "w", "o", "r", "k", " ", "E", "r", "r", "o", "r">>

\* the catch block's message, with every rejection reported as generic
LoginErrorMessageGeneric(err) == GenericLoginErrorMessage

\* the message the catch block of onSubmit chooses for the rejection err
LoginErrorMessage(err) ==
    IF err.response # Null /\ ValueOf(err.response).status = HTTP_401_UNAUTHORIZED
    THEN InvalidCredentialsMessage
    ELSE IF err.message # Null /\ IncludesText(ValueOf(err.message), NetworkErrorText)
    THEN NetworkErrorMessage
    ELSE GenericLoginErrorMessage

\* the refs of LoginView as it is mounted (no login in flight, nothing rejected)
LoginView ==
    [username |-> "", password |-> "", loading |-> FALSE, errorMessage |-> "",
     route |-> LoginPath, pending |-> Null, settled |-> "", rejection |-> Null]

\* ---- the frontend state ---------------------------------------------------------
\* date: the last string given to safeFormatBrazilianDateToISO and its result
\* stock: the filters of the last getStockItems call and the parameters it sent
\*        (sent counts the requests)
\* logger: the singleton Logger (here of a development build), the logging
\*       method called last and what that call wrote to the console
\* menu: authStore.currentUser as the side menu sees it and the menu entries
\*       rendered (renders tells whether the store has changed since mounting)
\* form: the refs of useTransactionForm, the cost lookups in flight (pending)
\*       and the average cost last returned for each SKU (looked); cleared
\*       tells whether a change of type found a supplier and an invoice number
\* filters: localFilters of BaseFilterForm, filters of TransactionsFilters, and
\*       the events TransactionsFilters emitted to its parent on the last click
\*       on Pesquisar (clicks tells whether there was one; bySearch are the
\*       events among them that onSearch emitted)
\* sidemenu: the refs that exist, the ref each component got from useSideMenu()
\*       (used), and the calls made through those results so far (calls)
\* login: the refs of LoginView, the router's current path (route), the
\*       credentials of the authStore.login call in flight (pending), and how
\*       the last such call ended (settled, rejection)
NoUi ==
    [date |-> [input |-> <<>>, output |-> Null],
     stock |-> [filters |-> NoStockFilters, params |-> StockParams(1, NoStockFilters),
                sent |-> 0],
     menu |-> [currentUser |-> Null, rendered |-> Rendered(Null), renders |-> 0],
     logger |-> [isProduction |-> FALSE, level |-> InitialLevel(FALSE),
                 called |-> "", console |-> Null],
     form |-> TransactionForm(DefaultForm, Null),
     filters |-> [localFilters |-> DefaultFilters, filters |-> DefaultFilters,
                  clicks |-> 0, emitted |-> <<>>, bySearch |-> <<>>],
     sidemenu |-> [heap |-> ModuleHeap, used |-> [c \in MenuUsers |-> Null], calls |-> <<>>],
     login |-> LoginView]

\* ---- actions -------------------------------------------------------------------
Init ==
    /\ items = Registry
    /\ ledger = <<>>
    /\ call = NoCall
    /\ kept = NoKept
    /\ run = [c \in Clients |-> NoRun]
    /\ ui = NoUi

\* submitForm of the transaction form: a validated form (quantity > 0,
\* unitCost > 0, a product selected) creates an Entrada or a Saida; the store
\* numbers it and dates it.
CreateTransacao(sku, tipo, q, v, dt) ==
    /\ q > 0 /\ v > 0
    /\ ledger' = Append(ledger, Transacao(Len(ledger) + 1, sku, tipo, q, v, dt))
    /\ UNCHANGED <<items, call, kept, run, ui>>

\* GET of the stock-cost list.  `remember` only records the call, with the
\* store it ran against, for comparison with later calls.
ListStock(req, today, remember) ==
    /\ call' = ListResponse(req, today)
    /\ kept' = IF remember /\ call'.status = HTTP_200_OK
               THEN [call |-> call', ledger |-> ledger, items |-> items, later |-> 0]
               ELSE IF kept # NoKept /\ kept.later < MaxLater
               THEN [kept EXCEPT !.later = @ + 1]
               ELSE kept
    /\ UNCHANGED <<items, ledger, run, ui>>

\* a client sends the GET
StartList(c, req, today) ==
    /\ run[c].pc = "idle"
    /\ run' = [run EXCEPT ![c] = BeginList(@, req, today)]
    /\ UNCHANGED <<items, ledger, call, kept, ui>>

\* (a variant of ReadItems that leaves in the registry only the items fetched)
ReadItemsNarrowing(c, ok) ==
    /\ run[c].pc = "items_query"
    /\ run' = [run EXCEPT ![c] =
                 IF ~ok THEN Raise(run[c], "items_query")
                 ELSE LET q == SelectItems(items, run[c].req)
                          r == [Logged(run[c], "items_query", TRUE) EXCEPT
                                    !.items_query = q, !.idx = 1]
                      IN  IF q = <<>> THEN Proceed(r)
                          ELSE [r EXCEPT !.pc = "entradas_transacoes"]]
    /\ items' = SelectItems(items, run[c].req)
    /\ UNCHANGED <<ledger, call, kept, ui>>

\* for item in items_query: the items are fetched
ReadItems(c, ok) ==
    /\ run[c].pc = "items_query"
    /\ run' = [run EXCEPT ![c] =
                 IF ~ok THEN Raise(run[c], "items_query")
                 ELSE LET q == SelectItems(items, run[c].req)
                          r == [Logged(run[c], "items_query", TRUE) EXCEPT
                                    !.items_query = q, !.idx = 1]
                      IN  IF q = <<>> THEN Proceed(r)
                          ELSE [r EXCEPT !.pc = "entradas_transacoes"]]
    /\ UNCHANGED <<items, ledger, call, kept, ui>>

\* the first next(... entradas_transacoes ...): the grouped entry totals
ReadEntradasTransacoes(c, ok) ==
    /\ run[c].pc = "entradas_transacoes"
    /\ run' = [run EXCEPT ![c] =
                 IF ~ok THEN Raise(run[c], "entradas_transacoes")
                 ELSE [Logged(run[c], "entradas_transacoes", TRUE) EXCEPT
                          !.entradas_transacoes = GroupTotals("entrada", ValueOf(run[c].stock_date)),
                          !.pc = "saidas_transacoes"]]
    /\ UNCHANGED <<items, ledger, call, kept, ui>>

\* the first next(... saidas_transacoes ...): the grouped exit totals, then the
\* hasStock test of the loop
ReadSaidasTransacoes(c, ok) ==
    /\ run[c].pc = "saidas_transacoes"
    /\ run' = [run EXCEPT ![c] =
                 IF ~ok THEN Raise(run[c], "saidas_transacoes")
                 ELSE Proceed([Logged(run[c], "saidas_transacoes", TRUE) EXCEPT
                          !.saidas_transacoes = GroupTotals("saida", ValueOf(run[c].stock_date))])]
    /\ UNCHANGED <<items, ledger, call, kept, ui>>

ReadEntradasAggregate(c, ok) ==
    /\ run[c].pc = "entradas_aggregate"
    /\ run' = [run EXCEPT ![c] =
                 IF ~ok THEN Raise(run[c], "entradas_aggregate")
                 ELSE [Logged(run[c], "entradas_aggregate", TRUE) EXCEPT
                          !.entradas_aggregate =
                              Aggregate(run[c].items_query[run[c].idx].cod_sku, "entrada", ValueOf(run[c].stock_date)),
                          !.pc = "saidas_aggregate"]]
    /\ UNCHANGED <<items, ledger, call, kept, ui>>

ReadSaidasAggregate(c, ok) ==
    /\ run[c].pc = "saidas_aggregate"
    /\ run' = [run EXCEPT ![c] =
                 IF ~ok THEN Raise(run[c], "saidas_aggregate")
                 ELSE [Logged(run[c], "saidas_aggregate", TRUE) EXCEPT
                          !.saidas_aggregate =
                              Aggregate(run[c].items_query[run[c].idx].cod_sku, "saida", ValueOf(run[c].stock_date)),
                          !.pc = "custo_ultima_entrada"]]
    /\ UNCHANGED <<items, ledger, call, kept, ui>>

\* the last-entry query, item_data, result.append and the next turn of the loop
ReadCustoUltimaEntrada(c, ok) ==
    /\ run[c].pc = "custo_ultima_entrada"
    /\ run' = [run EXCEPT ![c] =
                 IF ~ok THEN Raise(run[c], "custo_ultima_entrada")
                 ELSE LET item == run[c].items_query[run[c].idx]
                          item_data == ItemDataOf(item, run[c].entradas_aggregate, run[c].saidas_aggregate,
                                           CustoUltimaEntrada(item.cod_sku, ValueOf(run[c].stock_date)))
                      IN  Proceed([Logged(run[c], "custo_ultima_entrada", TRUE) EXCEPT
                                      !.result = Append(@, item_data),
                                      !.idx = @ + 1])]
    /\ UNCHANGED <<items, ledger, call, kept, ui>>

\* a caller converts a date string
ConvertDate(s) ==
    /\ ui' = [ui EXCEPT !.date = [input |-> s, output |-> safeFormatBrazilianDateToISO(s)]]
    /\ UNCHANGED <<items, ledger, call, kept, run>>

\* getStockItems(page, filters): builds the parameters and sends the GET
GetStockItems(page, filters) ==
    /\ ui' = [ui EXCEPT !.stock = [filters |-> filters,
                                   params |-> StockParams(page, filters),
                                   sent |-> 1]]
    /\ UNCHANGED <<items, ledger, call, kept, run>>

\* authStore.currentUser changes (login, logout, a permissions update) and the
\* template renders again
CurrentUserChanges(currentUser) ==
    /\ ui' = [ui EXCEPT !.menu = [currentUser |-> currentUser,
                                  rendered |-> Rendered(currentUser),
                                  renders |-> 1]]
    /\ UNCHANGED <<items, ledger, call, kept, run>>

\* new Logger() of a production or a development build
NewLogger(isProduction) ==
    /\ ui' = [ui EXCEPT !.logger = [isProduction |-> isProduction,
                                    level |-> InitialLevel(isProduction),
                                    called |-> "", console |-> Null]]
    /\ UNCHANGED <<items, ledger, call, kept, run>>

SetLevel(level) ==
    /\ ui' = [ui EXCEPT !.logger.level = level]
    /\ UNCHANGED <<items, ledger, call, kept, run>>

LoggerDebug(message) ==
    /\ ui' = [ui EXCEPT !.logger.called = "debug",
                        !.logger.console = ConsoleWrite(ui.logger.level, LogLevel.DEBUG,
                                                        "log", "[DEBUG]", message)]
    /\ UNCHANGED <<items, ledger, call, kept, run>>

LoggerInfo(message) ==
    /\ ui' = [ui EXCEPT !.logger.called = "info",
                        !.logger.console = ConsoleWrite(ui.logger.level, LogLevel.INFO,
                                                        "info", "[INFO]", message)]
    /\ UNCHANGED <<items, ledger, call, kept, run>>

LoggerWarn(message) ==
    /\ ui' = [ui EXCEPT !.logger.called = "warn",
                        !.logger.console = ConsoleWrite(ui.logger.level, LogLevel.WARN,
                                                        "warn", "[WARN]", message)]
    /\ UNCHANGED <<items, ledger, call, kept, run>>

LoggerError(message) ==
    /\ ui' = [ui EXCEPT !.logger.called = "error",
                        !.logger.console = ConsoleWrite(ui.logger.level, LogLevel.ERROR,
                                                        "error", "[ERROR]", message)]
    /\ UNCHANGED <<items, ledger, call, kept, run>>

\* useTransactionForm(initialForm, transaction)
UseTransactionForm(initialForm, transaction) ==
    /\ ui' = [ui EXCEPT !.form = TransactionForm(initialForm, transaction)]
    /\ UNCHANGED <<items, ledger, call, kept, run>>

\* selectedSupplier.value = supplier, and watch(selectedSupplier)
SelectSupplier(supplier) ==
    /\ ui.form.selectedSupplier # supplier
    /\ ui' = [ui EXCEPT !.form.selectedSupplier = supplier,
                        !.form.supplierId =
                            IF supplier # Null THEN Some(ValueOf(supplier).codFornecedor)
                            ELSE Null,
                        !.form.supplierName =
                            IF supplier # Null THEN Some(ValueOf(supplier).nomeFornecedor)
                            ELSE Null]
    /\ UNCHANGED <<items, ledger, call, kept, run>>

\* the user types the invoice number / the quantity (v-model on form)
TypeCodNf(codNf) ==
    /\ ui.form.codNf # codNf
    /\ ui' = [ui EXCEPT !.form.codNf = codNf]
    /\ UNCHANGED <<items, ledger, call, kept, run>>

TypeQuantity(quantity) ==
    /\ ui.form.quantity # quantity
    /\ ui' = [ui EXCEPT !.form.quantity = quantity]
    /\ UNCHANGED <<items, ledger, call, kept, run>>

\* the type watcher keeping the invoice number
SetIsEntryKeepingNf(isEntry) ==
    /\ ui.form.isEntry # isEntry
    /\ Len(ui.form.pending) < MaxPending
    /\ LET f == [ui.form EXCEPT !.isEntry = isEntry]
           reset == [f EXCEPT !.supplierId = Null, !.supplierName = Null,
                              !.selectedSupplier = Null,
                              !.cleared = @ \/ (f.supplierId # Null /\ f.codNf # <<>>)]
       IN ui' = [ui EXCEPT !.form =
                    IF isEntry THEN f
                    ELSE IF f.sku # <<>> /\ ~f.isEditMode THEN updateUnitCostForOutput(reset)
                    ELSE reset]
    /\ UNCHANGED <<items, ledger, call, kept, run>>

\* selectedProduct.value = product, and watch(selectedProduct) up to its await
SelectProduct(product) ==
    /\ ui.form.selectedProduct # product
    /\ Len(ui.form.pending) < MaxPending
    /\ LET f == ui.form
           synced == IF product # Null
                     THEN [f EXCEPT !.selectedProduct = product,
                                    !.sku = ValueOf(product).codSku,
                                    !.product = ValueOf(product).descricaoItem]
                     ELSE [f EXCEPT !.selectedProduct = product,
                                    !.sku = <<>>, !.product = <<>>]
       IN ui' = [ui EXCEPT !.form =
                    IF product # Null /\ ~f.isEditMode THEN updateCostForProduct(synced)
                    ELSE synced]
    /\ UNCHANGED <<items, ledger, call, kept, run>>

\* the type watcher without its test of isEditMode
SetIsEntryAnyMode(isEntry) ==
    /\ ui.form.isEntry # isEntry
    /\ Len(ui.form.pending) < MaxPending
    /\ LET f == [ui.form EXCEPT !.isEntry = isEntry]
           reset == [f EXCEPT !.supplierId = Null, !.supplierName = Null,
                              !.codNf = <<>>, !.selectedSupplier = Null,
                              !.cleared = @ \/ (f.supplierId # Null /\ f.codNf # <<>>)]
       IN ui' = [ui EXCEPT !.form =
                    IF isEntry THEN f
                    ELSE IF f.sku # <<>> THEN updateUnitCostForOutput(reset)
                    ELSE reset]
    /\ UNCHANGED <<items, ledger, call, kept, run>>

\* form.value.isEntry = isEntry, and watch(() => form.value.isEntry) up to its
\* await (with watch(selectedSupplier) for the supplier it clears)
SetIsEntry(isEntry) ==
    /\ ui.form.isEntry # isEntry
    /\ Len(ui.form.pending) < MaxPending
    /\ LET f == [ui.form EXCEPT !.isEntry = isEntry]
           reset == [f EXCEPT !.supplierId = Null, !.supplierName = Null,
                              !.codNf = <<>>, !.selectedSupplier = Null,
                              !.cleared = @ \/ (f.supplierId # Null /\ f.codNf # <<>>)]
       IN ui' = [ui EXCEPT !.form =
                    IF isEntry THEN f
                    ELSE IF f.sku # <<>> /\ ~f.isEditMode THEN updateUnitCostForOutput(reset)
                    ELSE reset]
    /\ UNCHANGED <<items, ledger, call, kept, run>>

\* a request of the i-th lookup in flight ends: getAverageCost goes on to its
\* second request or returns, getLastEntryCost returns; on return loadingCost is
\* cleared and the awaiting caller resumes
LookupResponds(i, outcome) ==
    /\ i \in 1..Len(ui.form.pending)
    /\ LET f == ui.form
           l == f.pending[i]
           value == Returned(l, outcome)
       IN ui' = [ui EXCEPT !.form =
                    IF value = Null
                    THEN [f EXCEPT !.pending[i].request = "getStockCosts"]
                    ELSE Resume([f EXCEPT !.loadingCost = FALSE,
                                          !.pending = RemoveAt(f.pending, i)],
                                l, ValueOf(value))]
    /\ UNCHANGED <<items, ledger, call, kept, run>>

\* the user types into a date field of BaseFilterForm (v-model on localFilters)
TypeDate(key, text) ==
    /\ ui.filters.localFilters[key] # text
    /\ ui' = [ui EXCEPT !.filters.localFilters[key] = text]
    /\ UNCHANGED <<items, ledger, call, kept, run>>

\* a click on Pesquisar: emitSearch emits update:modelValue, which v-model
\* stores in filters, then search, which runs onSearch; the watcher on filters
\* runs when the click handler has returned
EmitSearch ==
    /\ LET value == ui.filters.localFilters
       IN ui' = [ui EXCEPT !.filters.filters = value,
                           !.filters.clicks = 1,
                           !.filters.emitted = onSearch(value) \o watchFilters(value),
                           !.filters.bySearch = onSearch(value)]
    /\ UNCHANGED <<items, ledger, call, kept, run>>

\* setup of a component: const { isExpanded, ... } = useSideMenu()
SetupMenuUser(component) ==
    /\ Len(ui.sidemenu.heap) < MaxRefs
    /\ LET result == useSideMenu(ui.sidemenu.heap)
       IN ui' = [ui EXCEPT !.sidemenu.heap = result.heap,
                           !.sidemenu.used[component] = Some(result.isExpanded)]
    /\ UNCHANGED <<items, ledger, call, kept, run>>

\* toggleExpansion() / expand() / collapse() of the result a component holds
ToggleExpansion(component) ==
    /\ ui.sidemenu.used[component] # Null
    /\ Len(ui.sidemenu.calls) < MaxCalls
    /\ ui' = [ui EXCEPT !.sidemenu.heap =
                            toggleExpansion(@, ValueOf(ui.sidemenu.used[component])),
                        !.sidemenu.calls = Append(@, "toggleExpansion")]
    /\ UNCHANGED <<items, ledger, call, kept, run>>

Expand(component) ==
    /\ ui.sidemenu.used[component] # Null
    /\ Len(ui.sidemenu.calls) < MaxCalls
    /\ ui' = [ui EXCEPT !.sidemenu.heap = expand(@, ValueOf(ui.sidemenu.used[component])),
                        !.sidemenu.calls = Append(@, "expand")]
    /\ UNCHANGED <<items, ledger, call, kept, run>>

Collapse(component) ==
    /\ ui.sidemenu.used[component] # Null
    /\ Len(ui.sidemenu.calls) < MaxCalls
    /\ ui' = [ui EXCEPT !.sidemenu.heap = collapse(@, ValueOf(ui.sidemenu.used[component])),
                        !.sidemenu.calls = Append(@, "collapse")]
    /\ UNCHANGED <<items, ledger, call, kept, run>>

\* the router shows LoginView: the component is mounted with fresh refs
OpenLogin ==
    /\ ui.login.route # LoginPath
    /\ ui' = [ui EXCEPT !.login = [LoginView EXCEPT !.settled = ui.login.settled]]
    /\ UNCHANGED <<items, ledger, call, kept, run>>

\* typing into a field: v-model, and @input="clearError"
TypeUsername(text) ==
    /\ ui.login.route = LoginPath
    /\ ui.login.username # text
    /\ ui' = [ui EXCEPT !.login.username = text, !.login.errorMessage = ""]
    /\ UNCHANGED <<items, ledger, call, kept, run>>

TypePassword(text) ==
    /\ ui.login.route = LoginPath
    /\ ui.login.password # text
    /\ ui' = [ui EXCEPT !.login.password = text, !.login.errorMessage = ""]
    /\ UNCHANGED <<items, ledger, call, kept, run>>

\* onSubmit up to its await (the button is inert while loading)
OnSubmit ==
    /\ ui.login.route = LoginPath
    /\ ~ui.login.loading
    /\ ui' = [ui EXCEPT !.login.loading = TRUE,
                        !.login.errorMessage = "",
                        !.login.pending = Some([username |-> ui.login.username,
                                                password |-> ui.login.password]),
                        !.login.settled = "",
                        !.login.rejection = Null]
    /\ UNCHANGED <<items, ledger, call, kept, run>>

\* authStore.login resolves: the rest of the try block, then finally
LoginResolves ==
    /\ ui.login.pending # Null
    /\ ui' = [ui EXCEPT !.login.route = HomePath,
                        !.login.loading = FALSE,
                        !.login.pending = Null,
                        !.login.settled = "resolved"]
    /\ UNCHANGED <<items, ledger, call, kept, run>>

\* authStore.login rejects with err: the catch block, then finally
LoginRejects(err) ==
    /\ ui.login.pending # Null
    /\ ui' = [ui EXCEPT !.login.errorMessage = LoginErrorMessage(err),
                        !.login.password = "",
                        !.login.loading = FALSE,
                        !.login.pending = Null,
                        !.login.settled = "rejected",
                        !.login.rejection = Some(err)]
    /\ UNCHANGED <<items, ledger, call, kept, run>>

Days == {Date(Year, 1, d) : d \in 1..MaxDay}
Tipos == {"entrada", "saida"}

\* stockDate values sent: none, a day of January (day 0 is no calendar day)
StockDateParams == {NoParam} \cup {YmdParam(Year, 1, d) : d \in 0..MaxDay}

\* <<sku filter, description filter, active>> combinations sent
FilterChoices ==
    { <<<<>>, <<>>, FALSE>>, <<<<"a">>, <<>>, TRUE>>, <<<<>>, <<"O">>, FALSE>> }

Requests ==
    {Request(p, f[1], f[2], h, f[3]) :
        p \in StockDateParams, f \in FilterChoices, h \in BOOLEAN}

\* `today` matters only when stockDate is absent
TodaysFor(req) ==
    IF req.stockDate.kind = "absent" THEN Days ELSE {Date(Year, 1, 1)}

Next ==
    \/ /\ Len(ledger) < MaxLedger
       /\ \E sku \in Skus, tipo \in Tipos, q \in 1..MaxQty, v \in 1..MaxValue, dt \in Days :
            CreateTransacao(sku, tipo, q, v, dt)
    \/ \E req \in Requests : \E today \in TodaysFor(req) :
            ListStock(req, today, FALSE)

Spec == Init /\ [][Next]_vars

\* ---- the two ledgers of the documented scenarios ------------------------------
\* A001: Entry 10 at 2.00 on Jan 1, Entry 5 at 3.00 on Jan 10, Exit 8 at 2.33 on
\* Jan 15; B002: Exit 3 at 5.00 on Jan 5.  The transactions are created in any
\* order, each at most once.
Jan(d) == Date(Year, 1, d)

ScenarioA ==
    << [cod_sku |-> SkuA, tipo |-> "entrada", quantidade |-> 10, valor_unit |-> 200, data |-> Jan(1)],
       [cod_sku |-> SkuA, tipo |-> "entrada", quantidade |-> 5, valor_unit |-> 300, data |-> Jan(10)],
       [cod_sku |-> SkuA, tipo |-> "saida", quantidade |-> 8, valor_unit |-> 233, data |-> Jan(15)] >>

ScenarioB ==
    << [cod_sku |-> SkuB, tipo |-> "saida", quantidade |-> 3, valor_unit |-> 500, data |-> Jan(5)] >>

ScenarioTransactions ==
    {ScenarioA[k] : k \in 1..Len(ScenarioA)} \cup {ScenarioB[k] : k \in 1..Len(ScenarioB)}

\* a ledger row without its id_transacao
Content(t) ==
    [cod_sku |-> t.cod_sku, tipo |-> t.tipo, quantidade |-> t.quantidade,
     valor_unit |-> t.valor_unit, data |-> t.data]

ScenarioRequests ==
    {Request(p, f[1], f[2], h, f[3]) :
        p \in {NoParam} \cup {YmdParam(Year, 1, d) : d \in {1, 5, 10, 15, 20}},
        f \in FilterChoices, h \in BOOLEAN}

NextScenario ==
    \/ \E t \in ScenarioTransactions :
          /\ \A i \in 1..Len(ledger) : Content(ledger[i]) # t
          /\ CreateTransacao(t.cod_sku, t.tipo, t.quantidade, t.valor_unit, t.data)
    \/ \E req \in ScenarioRequests :
          ListStock(req, Jan(20), FALSE)

SpecScenario == Init /\ [][NextScenario]_vars

\* ---- repeated calls ------------------------------------------------------------
\* Calls on any day, each possibly remembered for comparison with a later one.
RepeatRequests ==
    {Request(p, <<>>, <<>>, h, FALSE) :
        p \in {NoParam} \cup {YmdParam(Year, 1, d) : d \in 1..MaxDay}, h \in BOOLEAN}

NextRepeat ==
    \/ /\ Len(ledger) < MaxLedger
       /\ \E sku \in Skus, tipo \in Tipos, dt \in Days :
            CreateTransacao(sku, tipo, 1, 1, dt)
    \/ \E req \in RepeatRequests, today \in Days, remember \in BOOLEAN :
            ListStock(req, today, remember)

SpecRepeat == Init /\ [][NextRepeat]_vars

\* ---- exits at the average cost ---------------------------------------------------
\* One item's entries and exits of the first of January, at unit values up to
\* MaxUnitValue, and calls for today's stock, each possibly remembered.
ExitRequest == Request(NoParam, <<>>, <<>>, FALSE, FALSE)

NextExit ==
    \/ /\ Len(ledger) < MaxExitLedger
       /\ \E tipo \in Tipos, q \in 1..MaxQty, v \in 1..MaxUnitValue :
            CreateTransacao(SkuA, tipo, q, v, Date(Year, 1, 1))
    \/ \E remember \in BOOLEAN : ListStock(ExitRequest, Date(Year, 1, MaxDay), remember)

SpecExit == Init /\ [][NextExit]_vars

\* ---- calls running query by query while the ledger grows ---------------------
StepRequests ==
    {Request(YmdParam(Year, 1, MaxDay), <<>>, <<>>, h, FALSE) : h \in BOOLEAN}
        \cup {Request(YmdParam(Year, 1, MaxDay), <<>>, <<>>, FALSE, TRUE),
              Request(YmdParam(Year, 1, 0), <<>>, <<>>, FALSE, FALSE),
              Request(TextParam, <<>>, <<>>, TRUE, FALSE)}

NextSteps ==
    \/ /\ Len(ledger) < MaxLedger
       /\ \E sku \in Skus, tipo \in Tipos :
            CreateTransacao(sku, tipo, 1, MaxValue, Date(Year, 1, 1))
    \/ \E c \in Clients, req \in StepRequests : StartList(c, req, Date(Year, 1, MaxDay))
    \/ \E c \in Clients, ok \in BOOLEAN : ReadItems(c, ok)
    \/ \E c \in Clients, ok \in BOOLEAN : ReadEntradasTransacoes(c, ok)
    \/ \E c \in Clients, ok \in BOOLEAN : ReadSaidasTransacoes(c, ok)
    \/ \E c \in Clients, ok \in BOOLEAN : ReadEntradasAggregate(c, ok)
    \/ \E c \in Clients, ok \in BOOLEAN : ReadSaidasAggregate(c, ok)
    \/ \E c \in Clients, ok \in BOOLEAN : ReadCustoUltimaEntrada(c, ok)

SpecSteps == Init /\ [][NextSteps]_vars

\* ---- date strings ----------------------------------------------------------------
\* Day, month and year texts around every limit the validators test, joined by
\* '/' or '-' in either order, and a few strings of no such shape.
DayTexts == {<<"0", "0">>, <<"0", "1">>, <<"2", "9">>, <<"3", "0">>, <<"3", "1">>, <<"3", "2">>, <<"1">>}
MonthTexts == {<<"0", "0">>, <<"0", "2">>, <<"0", "4">>, <<"1", "2">>, <<"1", "3">>}
YearTexts == {<<"1", "8", "9", "9">>, <<"1", "9", "0", "0">>, <<"2", "0", "2", "4">>, <<"2", "1", "0", "0">>, <<"2", "1", "0", "1">>}
Separators == {<<"/">>, <<"-">>}

DateInputs ==
    {d \o s1 \o m \o s2 \o y :
        d \in DayTexts, m \in MonthTexts, y \in YearTexts, s1 \in Separators, s2 \in Separators}
    \cup {y \o s1 \o m \o s2 \o d :
        d \in DayTexts, m \in MonthTexts, y \in YearTexts, s1 \in Separators, s2 \in Separators}
    \cup {<<>>, <<"a", "b", "c">>, <<"0", "1", "/", "0", "2">>, <<"/">>, <<"-">>,
           <<"x", "1", "/", "0", "2", "/", "2", "0", "2", "4">>, <<"2", "0", "2", "4", "-", "0", "2", "-", "x", "1">>, <<"0", "1", "/", "0", "2", "/", "2", "4">>, <<"1", "/", "2", "/", "2", "0", "2", "4">>}

NextDates == \E s \in DateInputs : ConvertDate(s)

\* the stock list's filters: any of the date strings, or none
StockFilterChoices ==
    {StockFilters(SkuA, <<>>, stockDate, Some(TRUE), Null) :
        stockDate \in {Null} \cup {Some(s) : s \in DateInputs}}

NextStock == \E filters \in StockFilterChoices : GetStockItems(1, filters)

SpecStock == Init /\ [][NextStock]_vars

\* ---- the side menu -----------------------------------------------------------------
\* the permissions the template asks for, and one it does not
Permissions ==
    {"home", "estoques", "registrar_transacao", "consultar_transacoes",
     "custos_estoque", "cadastro_itens", "suppliers", "cadastro_usuarios", "relatorios"}

\* users with up to three permissions, all or none, master or not
PermissionLists ==
    {{}, Permissions} \cup {{p, q, r} : p \in Permissions, q \in Permissions, r \in Permissions}

Users ==
    {Null} \cup {Some(User(isMaster, l)) : isMaster \in BOOLEAN, l \in PermissionLists}

NextMenu == \E u \in Users : CurrentUserChanges(u)

SpecMenu == Init /\ [][NextMenu]_vars

\* ---- the logger --------------------------------------------------------------------
\* messages logged directly and through a context logger
LogMessages ==
    {<<m>> : m \in {"Erro ao buscar itens em estoque:", "Filtros recebidos:"}}
        \cup {ContextMessage("[StockService]", <<"Erro ao buscar itens em estoque:">>)}

LogLevels == {LogLevel.DEBUG, LogLevel.INFO, LogLevel.WARN, LogLevel.ERROR, LogLevel.NONE}

NextLogger ==
    \/ \E isProduction \in BOOLEAN : NewLogger(isProduction)
    \/ \E level \in LogLevels : SetLevel(level)
    \/ \E message \in LogMessages : LoggerDebug(message)
    \/ \E message \in LogMessages : LoggerInfo(message)
    \/ \E message \in LogMessages : LoggerWarn(message)
    \/ \E message \in LogMessages : LoggerError(message)

SpecLogger == Init /\ [][NextLogger]_vars

\* <<initialForm, transaction>> a form is created with: a new form with the
\* defaults, and the form editing an exit of SkuA
FormChoices ==
    {<<DefaultForm, Null>>,
     <<[isEntry |-> FALSE, sku |-> SkuA, product |-> <<"N", "u", "t">>,
        quantity |-> 1, unitCost |-> 7], Some(1)>>}

ProductChoices == {Null} \cup {Some(p) : p \in Products}
CodNfTexts == {<<>>, <<"N", "F", "1">>}
SupplierChoices == {Null} \cup {Some(s) : s \in Suppliers}

NextForm ==
    \/ \E c \in FormChoices : UseTransactionForm(c[1], c[2])
    \/ \E supplier \in SupplierChoices : SelectSupplier(supplier)
    \/ \E product \in ProductChoices : SelectProduct(product)
    \/ \E isEntry \in BOOLEAN : SetIsEntry(isEntry)
    \/ \E codNf \in CodNfTexts : TypeCodNf(codNf)
    \/ \E quantity \in 0..MaxQty : TypeQuantity(quantity)
    \/ \E i \in 1..MaxPending, outcome \in Outcomes : LookupResponds(i, outcome)

SpecForm == Init /\ [][NextForm]_vars

\* texts typed into a date field: nothing, Brazilian and ISO dates, a day that
\* does not exist, and text that is no date
FilterDateTexts ==
    {<<>>,
     getCurrentBrazilianDate(FiltersToday),
     getCurrentBrazilianDate(Date(Year, 2, 1)),
     String(Year) \o <<"-", "0", "1", "-", "0", "1">>,
     <<"3", "1", "/", "0", "2", "/">> \o String(Year),
     <<"a", "b", "c">>}

DateFilterKeys == {"transactionsDateFrom", "transactionsDateTo"}

NextFilters ==
    \/ \E key \in DateFilterKeys, text \in FilterDateTexts : TypeDate(key, text)
    \/ EmitSearch

SpecFilters == Init /\ [][NextFilters]_vars

NextSideMenu ==
    \/ \E component \in MenuUsers : SetupMenuUser(component)
    \/ \E component \in MenuUsers : ToggleExpansion(component)
    \/ \E component \in MenuUsers : Expand(component)
    \/ \E component \in MenuUsers : Collapse(component)

SpecSideMenu == Init /\ [][NextSideMenu]_vars

\* what authStore.login can reject with: an HTTP error response (401, 500), no
\* response at all with axios' 'Network Error' message, and a bare error
LoginErrors ==
    {[response |-> Some([status |-> HTTP_401_UNAUTHORIZED]),
      message |-> Some(<<"R", "e", "q", "u", "e", "s", "t", " ", "f", "a", "i", "l", "e", "d", " ", "w", "i", "t", "h", " ", "s", "t", "a", "t", "u", "s", " ", "c", "o", "d", "e", " ", "4", "0", "1">>)],
     [response |-> Some([status |-> 500]),
      message |-> Some(<<"R", "e", "q", "u", "e", "s", "t", " ", "f", "a", "i", "l", "e", "d", " ", "w", "i", "t", "h", " ", "s", "t", "a", "t", "u", "s", " ", "c", "o", "d", "e", " ", "5", "0", "0">>)],
     [response |-> Null, message |-> Some(NetworkErrorText)],
     [response |-> Null, message |-> Some(<<"A", "x", "i", "o", "s", "E", "r", "r", "o", "r", ":", " ", "N", "e", "t", "w", "o", "r", "k", " ", "E", "r", "r", "o", "r">>)],
     [response |-> Null, message |-> Null]}

LoginTexts == {"", "ana", "s3nha"}

NextLogin ==
    \/ OpenLogin
    \/ \E text \in LoginTexts : TypeUsername(text)
    \/ \E text \in LoginTexts : TypePassword(text)
    \/ OnSubmit
    \/ LoginResolves
    \/ \E err \in LoginErrors : LoginRejects(err)

SpecLogin == Init /\ [][NextLogin]_vars

SpecDates == Init /\ [][NextDates]_vars

\* ---- reference values for the properties -------------------------------------
\* Computed from the ledger rows directly, apart from the operators above.
Abs(x) == IF x < 0 THEN -x ELSE x

\* a day number that orders dates
Ord(dt) == (dt.y * 12 + dt.m) * 31 + dt.d

Ok200 == call.status = HTTP_200_OK

AsOf == ValueOf(call.stock_date)

Snapshots == {call.results[k] : k \in 1..Len(call.results)}

\* the first n ledger rows of `sku` and type `tipo` dated on or before dt
RefRows(n, sku, tipo, dt) ==
    {i \in 1..n : /\ ledger[i].cod_sku = sku
                  /\ ledger[i].tipo = tipo
                  /\ Ord(ledger[i].data) <= Ord(dt)}

RECURSIVE RefQty(_, _, _, _)
RefQty(n, sku, tipo, dt) ==
    IF n = 0 THEN 0
    ELSE RefQty(n - 1, sku, tipo, dt)
            + (IF n \in RefRows(n, sku, tipo, dt) THEN ledger[n].quantidade ELSE 0)

RECURSIVE RefValue(_, _, _, _)
RefValue(n, sku, tipo, dt) ==
    IF n = 0 THEN 0
    ELSE RefValue(n - 1, sku, tipo, dt)
            + (IF n \in RefRows(n, sku, tipo, dt)
               THEN ledger[n].quantidade * ledger[n].valor_unit ELSE 0)

RefNetQty(n, sku, dt) == RefQty(n, sku, "entrada", dt) - RefQty(n, sku, "saida", dt)

RefNetValue(n, sku, dt) == RefValue(n, sku, "entrada", dt) - RefValue(n, sku, "saida", dt)

MaxOf(S) == CHOOSE i \in S : \A j \in S : j <= i

\* unit value of the qualifying Entry with the largest sequence number, if any
RefLastEntry(n, sku, dt) ==
    LET E == RefRows(n, sku, "entrada", dt)
    IN  IF E = {} THEN {} ELSE {ledger[MaxOf(E)].valor_unit}

\* x is net / q to the nearest DecimalScale-th (q # 0)
NearestQuotient(x, net, q) == 2 * Abs(x * q - net * DecimalScale) <= Abs(q)

\* C1: every snapshot's quantity is the sum of the quantities of the item's
\* Entries dated at or before the as-of date minus that of its Exits dated at
\* or before it.
C1_CurrentQty ==
    Ok200 =>
        \A s \in Snapshots :
            s.quantity = RefQty(call.rows, s.sku, "entrada", AsOf)
                            - RefQty(call.rows, s.sku, "saida", AsOf)

C1_Witness ==
    /\ Ok200
    /\ call.rows = Len(ledger)
    /\ \E s \in Snapshots :
          /\ RefQty(call.rows, s.sku, "entrada", AsOf) > 0
          /\ RefQty(call.rows, s.sku, "saida", AsOf) > 0
          /\ s.quantity # 0
          /\ s.quantity = RefNetQty(call.rows, s.sku, AsOf)

\* C2: a snapshot of an item whose net quantity is exactly 0 has unit_cost 0
\* and total_cost 0, whatever the net value of its entries minus exits is.
C2_ZeroGuard ==
    Ok200 =>
        \A s \in Snapshots :
            RefNetQty(call.rows, s.sku, AsOf) = 0
                => s.unit_cost = 0 /\ s.total_cost = 0

C2_Witness ==
    /\ Ok200
    /\ \E s \in Snapshots :
          /\ RefNetQty(call.rows, s.sku, AsOf) = 0
          /\ RefNetValue(call.rows, s.sku, AsOf) # 0
          /\ s.unit_cost = 0

Candidates == SelectItems(items, call.req)

ResultSkus == [k \in 1..Len(call.results) |-> call.results[k].sku]

\* cod_sku of the items of `its`, in order, whose net quantity meets `mode`
RECURSIVE RefKept(_, _)
RefKept(its, mode) ==
    IF its = <<>> THEN <<>>
    ELSE LET q == RefNetQty(call.rows, Head(its).cod_sku, AsOf)
             keep == CASE mode = "all" -> TRUE
                       [] mode = "nonzero" -> q # 0
                       [] mode = "positive" -> q > 0
         IN  (IF keep THEN <<Head(its).cod_sku>> ELSE <<>>) \o RefKept(Tail(its), mode)

RefOnOrBefore(n, sku, dt) ==
    {i \in 1..n : /\ ledger[i].cod_sku = sku
                  /\ \/ ledger[i].data = dt
                     \/ Ord(ledger[i].data) < Ord(dt)}

RECURSIVE SetNetQty(_)
SetNetQty(S) ==
    IF S = {} THEN 0
    ELSE LET i == MaxOf(S)
         IN  (IF ledger[i].tipo = "entrada" THEN ledger[i].quantidade
              ELSE -ledger[i].quantidade) + SetNetQty(S \ {i})

RECURSIVE SetNetValue(_)
SetNetValue(S) ==
    IF S = {} THEN 0
    ELSE LET i == MaxOf(S)
             v == ledger[i].quantidade * ledger[i].valor_unit
         IN  (IF ledger[i].tipo = "entrada" THEN v ELSE -v) + SetNetValue(S \ {i})

\* C6: the transactions dated exactly the as-of date count, with the earlier
\* ones, in the quantity, the value and the last-entry cost of a snapshot; the
\* transactions dated after it count in none of them.
C6_Boundary ==
    Ok200 =>
        \A s \in Snapshots :
            LET inc == RefOnOrBefore(call.rows, s.sku, AsOf)
                ent == {i \in inc : ledger[i].tipo = "entrada"}
            IN  /\ s.quantity = SetNetQty(inc)
                /\ s.quantity > 0 =>
                      2 * Abs(s.total_cost - SetNetValue(inc) * DecimalScale) <= s.quantity
                /\ s.last_entry_cost =
                      (IF ent = {} THEN {} ELSE {ledger[MaxOf(ent)].valor_unit})

C6_Witness ==
    /\ Ok200
    /\ \E s \in Snapshots :
          \E i, j \in 1..call.rows :
              /\ ledger[i].cod_sku = s.sku /\ ledger[j].cod_sku = s.sku
              /\ ledger[i].tipo = "entrada" /\ ledger[j].tipo = "entrada"
              /\ ledger[i].data = AsOf
              /\ Ord(ledger[j].data) > Ord(AsOf)
              /\ s.quantity = ledger[i].quantidade
              /\ s.total_cost = ledger[i].quantidade * ledger[i].valor_unit * DecimalScale
              /\ s.last_entry_cost = {ledger[i].valor_unit}

\* the candidate items with no transaction dated at or before the as-of date
Untouched ==
    {k \in 1..Len(Candidates) :
        \A i \in 1..call.rows :
            ledger[i].cod_sku = Candidates[k].cod_sku
                => Ord(ledger[i].data) > Ord(AsOf)}

ZeroSnapshot(sku, last) ==
    \E s \in Snapshots :
        /\ s.sku = sku
        /\ s.quantity = 0 /\ s.unit_cost = 0 /\ s.total_cost = 0
        /\ s.last_entry_cost = last

RECURSIVE RowsOf(_, _)
RowsOf(n, sku) ==
    IF n = 0 THEN <<>>
    ELSE RowsOf(n - 1, sku)
            \o (IF ledger[n].cod_sku = sku THEN <<Content(ledger[n])>> ELSE <<>>)

IsCandidate(sku) == \E k \in 1..Len(Candidates) : Candidates[k].cod_sku = sku

C9_Scenario ==
    (Ok200 /\ IsCandidate(SkuA) /\ RowsOf(call.rows, SkuA) = ScenarioA /\ AsOf = Jan(20)) =>
        \E s \in Snapshots :
            /\ s.sku = SkuA
            /\ s.quantity = 7
            /\ RefNetValue(call.rows, SkuA, AsOf) = 1636
            /\ NearestQuotient(s.unit_cost, 1636, 7)
            /\ Abs(10 * s.unit_cost - 2337 * DecimalScale) <= DecimalScale
            /\ 2 * Abs(s.total_cost - 1636 * DecimalScale) <= DecimalScale
            /\ s.last_entry_cost = {300}

C9_Witness ==
    /\ Ok200 /\ IsCandidate(SkuA) /\ RowsOf(call.rows, SkuA) = ScenarioA /\ AsOf = Jan(20)
    /\ call.req.hasStock
    /\ \E s \in Snapshots : s.sku = SkuA /\ s.quantity = 7 /\ s.last_entry_cost = {300}

Finished(c) == run[c].pc \in {"returned", "raised"}

Returned200(c) ==
    /\ run[c].pc = "returned"
    /\ ValueOf(run[c].response).status = HTTP_200_OK

\* C11: no step of a list call, whether the call goes on to return or to fail
\* and whatever the other client is doing, changes the Item registry or the
\* ledger.
C11_Frame ==
    [][((\E c \in Clients : run'[c] # run[c]) \/ call' # call \/ kept' # kept)
          => (items' = items /\ ledger' = ledger)]_vars

\* two calls that overlapped, one returned a filtered list and one failed, over a
\* ledger that grew meanwhile, and the registry is whole
C11_Witness ==
    /\ Returned200(1) /\ run[1].req.active
    /\ run[2].pc = "raised"
    /\ run[2].rows0 < run[1].rows1 /\ run[1].rows0 < run[2].rows1
    /\ run[1].rows0 < run[1].rows1
    /\ Len(run[1].items_query) < Len(items)
    /\ items = Registry

\* the snapshot that one state of the ledger, its first n rows, gives for sku
SnapshotAt(s, n, dt) ==
    LET q == RefNetQty(n, s.sku, dt)
        net == RefNetValue(n, s.sku, dt)
    IN  /\ s.quantity = q
        /\ IF q > 0 THEN NearestQuotient(s.unit_cost, net, q) ELSE s.unit_cost = 0
        /\ s.total_cost = s.unit_cost * q
        /\ s.last_entry_cost = RefLastEntry(n, s.sku, dt)

\* C12 as stated: every snapshot a call returns has its quantity, unit cost,
\* total cost and last-entry cost all derived from one state of the ledger that
\* existed during the call.
C12_Consistent ==
    \A c \in Clients :
        Returned200(c) =>
            LET results == ValueOf(run[c].response).results
            IN  \A k \in 1..Len(results) :
                    \E n \in run[c].rows0..run[c].rows1 :
                        SnapshotAt(results[k], n, ValueOf(run[c].stock_date))

\* C13: a call whose stockDate is supplied and is no calendar date returns the
\* 400 Response with no results, having run no query.
C13_Rejected ==
    \A c \in Clients :
        (run[c].pc # "idle" /\ run[c].req.stockDate.kind # "absent"
            /\ (run[c].req.stockDate.kind = "text"
                \/ run[c].req.stockDate.d \notin 1..31))
        => /\ run[c].pc = "returned"
           /\ run[c].response = Some([status |-> HTTP_400_BAD_REQUEST,
                                      count |-> 0, results |-> <<>>])
           /\ run[c].log = <<>>
           /\ run[c].result = <<>>

\* a rejected call next to one that ran all its queries over a non-empty store
C13_Witness ==
    /\ run[1].pc = "returned" /\ run[1].req.stockDate.d = 0
    /\ run[1].req.stockDate.kind = "ymd"
    /\ ValueOf(run[1].response).status = HTTP_400_BAD_REQUEST
    /\ run[1].rows0 > 0
    /\ Returned200(2) /\ Len(run[2].log) > 3

\* C14: a query that fails ends the call there: it is the last query of the
\* call, it was run once, and the call returns no Response (no partial list).
C14_NoRetry ==
    \A c \in Clients :
        \A i \in 1..Len(run[c].log) :
            ~run[c].log[i].ok =>
                /\ run[c].pc = "raised"
                /\ i = Len(run[c].log)
                /\ run[c].response = Null
                /\ \A j \in 1..Len(run[c].log) :
                       (run[c].log[j].query = run[c].log[i].query
                            /\ run[c].log[j].idx = run[c].log[i].idx) => j = i

\* a call that fails on a query of its second item, one snapshot already built
C14_Witness ==
    /\ run[1].pc = "raised"
    /\ run[1].idx = 2
    /\ Len(run[1].result) = 1
    /\ run[1].response = Null
    /\ ~run[1].log[Len(run[1].log)].ok

\* ---- date strings ----------------------------------------------------------------
RefDigit(ch) ==
    CASE ch = "0" -> 0 [] ch = "1" -> 1 [] ch = "2" -> 2 [] ch = "3" -> 3
      [] ch = "4" -> 4 [] ch = "5" -> 5 [] ch = "6" -> 6 [] ch = "7" -> 7
      [] ch = "8" -> 8 [] ch = "9" -> 9 [] OTHER -> -1

RefIsNumber(s, from, to) == \A i \in from..to : RefDigit(s[i]) >= 0

RECURSIVE RefNumber(_, _, _)
RefNumber(s, from, to) ==
    IF to < from THEN 0 ELSE 10 * RefNumber(s, from, to - 1) + RefDigit(s[to])

\* the days of the Gregorian calendar
RefDaysIn(y, m) ==
    <<31, IF y % 400 = 0 \/ (y % 4 = 0 /\ y % 100 # 0) THEN 29 ELSE 28,
      31, 30, 31, 30, 31, 31, 30, 31, 30, 31>>[m]

RefCalendarDay(d, m, y) ==
    /\ y \in 1900..2100
    /\ m \in 1..12
    /\ d >= 1 /\ d <= RefDaysIn(y, m)

\* the day, month and year a DD/MM/YYYY or YYYY-MM-DD string names, if it is
\* of one of the two shapes
RefDayMonthYear(s) ==
    IF Len(s) # 10 THEN {}
    ELSE IF s[3] = "/" /\ s[6] = "/" /\ RefIsNumber(s, 1, 2) /\ RefIsNumber(s, 4, 5)
              /\ RefIsNumber(s, 7, 10)
    THEN {[d |-> RefNumber(s, 1, 2), m |-> RefNumber(s, 4, 5), y |-> RefNumber(s, 7, 10)]}
    ELSE IF s[5] = "-" /\ s[8] = "-" /\ RefIsNumber(s, 1, 4) /\ RefIsNumber(s, 6, 7)
              /\ RefIsNumber(s, 9, 10)
    THEN {[d |-> RefNumber(s, 9, 10), m |-> RefNumber(s, 6, 7), y |-> RefNumber(s, 1, 4)]}
    ELSE {}

RefChar(n) == SubSeq(<<"0", "1", "2", "3", "4", "5", "6", "7", "8", "9">>, n + 1, n + 1)

\* YYYY-MM-DD of a day, month and year
RefIso(t) ==
    RefChar(t.y \div 1000) \o RefChar((t.y \div 100) % 10) \o RefChar((t.y \div 10) % 10)
        \o RefChar(t.y % 10) \o <<"-">> \o RefChar(t.m \div 10) \o RefChar(t.m % 10)
        \o <<"-">> \o RefChar(t.d \div 10) \o RefChar(t.d % 10)

\* C15: safeFormatBrazilianDateToISO returns null unless its input is
\* DD/MM/YYYY or YYYY-MM-DD naming a calendar day of a year 1900 to 2100, and
\* then returns YYYY-MM-DD of that day, month and year; every non-null result
\* satisfies isValidISODate.
C15_SafeFormat ==
    LET s == ui.date.input
        out == ui.date.output
        named == {t \in RefDayMonthYear(s) : RefCalendarDay(t.d, t.m, t.y)}
    IN  /\ named = {} => out = Null
        /\ \A t \in named : out = Some(RefIso(t))
        /\ out # Null => isValidISODate(ValueOf(out))

\* 29/02/2024 converted
C15_Witness ==
    /\ ui.date.input = <<"2", "9", "/", "0", "2", "/", "2", "0", "2", "4">>
    /\ ui.date.output = Some(<<"2", "0", "2", "4", "-", "0", "2", "-", "2", "9">>)

\* ---- getStockItems ----------------------------------------------------------------
StockDateFilter ==
    IF ui.stock.filters.stockDate = Null THEN <<>> ELSE ValueOf(ui.stock.filters.stockDate)

\* digits '/' digits '/' digits, one or two digits for the day and the month
\* and four for the year
RefSlashDate(s) ==
    \E i \in 2..3, j \in 4..6 :
        /\ Len(s) = j + 4 /\ j - i \in 2..3
        /\ s[i] = "/" /\ s[j] = "/"
        /\ \A k \in (1..Len(s)) \ {i, j} : RefDigit(s[k]) >= 0

RefIsoShape(s) ==
    /\ Len(s) = 10 /\ s[5] = "-" /\ s[8] = "-"
    /\ RefIsNumber(s, 1, 4) /\ RefIsNumber(s, 6, 7) /\ RefIsNumber(s, 9, 10)

\* C16 as stated: a DD/MM/YYYY filter is sent as the YYYY-MM-DD string that
\* formatBrazilianDateToISO returns for it, the stockDate sent is always an
\* ISO calendar date string, and none is sent for an empty filter.
C16_Original ==
    ui.stock.sent > 0 =>
        /\ RefSlashDate(StockDateFilter)
              => ui.stock.params.stockDate = Some(formatBrazilianDateToISO(StockDateFilter))
        /\ ui.stock.params.stockDate # Null
              => RefIsoShape(ValueOf(ui.stock.params.stockDate))
        /\ StockDateFilter = <<>> => ui.stock.params.stockDate = Null

\* C16 amended: a filter D/M/YYYY (one or two digits for day and month) is
\* sent as YYYY-MM-DD, zero-padded, the string formatBrazilianDateToISO returns;
\* the string sent is an ISO calendar date whenever the filter is a valid
\* DD/MM/YYYY or YYYY-MM-DD date; every other non-empty filter is sent too,
\* unvalidated; none is sent for an empty filter.
C16_StockDateSent ==
    ui.stock.sent > 0 =>
        /\ RefSlashDate(StockDateFilter)
              => /\ ui.stock.params.stockDate = Some(formatBrazilianDateToISO(StockDateFilter))
                 /\ RefIsoShape(ValueOf(ui.stock.params.stockDate))
        /\ \A t \in RefDayMonthYear(StockDateFilter) :
              RefCalendarDay(t.d, t.m, t.y)
                  => /\ ui.stock.params.stockDate = Some(RefIso(t))
                     /\ isValidISODate(RefIso(t))
        /\ StockDateFilter # <<>> => ui.stock.params.stockDate # Null
        /\ StockDateFilter = <<>> => ui.stock.params.stockDate = Null

\* 1/2/2024 sent as 2024-02-01
C16_Witness ==
    /\ ui.stock.sent > 0
    /\ StockDateFilter = <<"1", "/", "2", "/", "2", "0", "2", "4">>
    /\ ui.stock.params.stockDate = Some(<<"2", "0", "2", "4", "-", "0", "2", "-", "0", "1">>)

\* ---- the side menu -----------------------------------------------------------------
RefAllowed(u, p) == \E x \in u : x.isMaster \/ p \in x.permissionsList

GatedRoutes ==
    {<<"/", "home">>, <<"/estoques", "estoques">>,
     <<"/registrar-transacao", "registrar_transacao">>,
     <<"/consultar-transacoes", "consultar_transacoes">>,
     <<"/custos", "custos_estoque">>, <<"/itens", "cadastro_itens">>,
     <<"/fornecedores", "suppliers">>, <<"/usuarios", "cadastro_usuarios">>}

C18_ErrorAlwaysEmitted ==
    ui.logger.called = "error" =>
        /\ ui.logger.console # Null
        /\ \A w \in ui.logger.console : w.method = "error" /\ w.text[1] = "[ERROR]"

\* C19: in a new (non-edit) form with a product selected and the type set to
\* exit, once no cost lookup is pending form.unitCost is the average cost looked
\* up for the currently selected SKU, in whatever order selections, type changes
\* and responses occurred
C19_ExitCostIsAverage ==
    LET f == ui.form
    IN (/\ ~f.isEditMode
        /\ ~f.isEntry
        /\ f.sku # <<>>
        /\ f.pending = <<>>
        /\ f.looked[f.sku] # Null)
       => f.unitCost = ValueOf(f.looked[f.sku])

\* C20: every value TransactionsFilters sends to its parent through
\* update:modelValue has transactionsDateFrom and transactionsDateTo each empty
\* or a valid ISO (YYYY-MM-DD) date
C20_SentDatesAreISO ==
    \A i \in 1..Len(ui.filters.emitted) :
        LET event == ui.filters.emitted[i]
        IN event.e = "update:modelValue" =>
              \A key \in DateFilterKeys :
                  \/ ValueOf(event.value)[key] = <<>>
                  \/ isValidISODate(ValueOf(event.value)[key])

\* the day a date filter names, if it names one
RefNamedDay(s) == {t \in RefDayMonthYear(s) : RefCalendarDay(t.d, t.m, t.y)}

RefConverted(s) == IF s = <<>> THEN <<>> ELSE RefIso(CHOOSE t \in RefNamedDay(s) : TRUE)

\* C21: when a non-empty date filter is not a valid date onSearch emits
\* nothing; otherwise it emits one update:modelValue carrying the filters with
\* their dates converted to YYYY-MM-DD, and then one search
C21_OnSearch ==
    ui.filters.clicks > 0 =>
        LET f == ui.filters.filters
            out == ui.filters.bySearch
        IN IF \E key \in DateFilterKeys : f[key] # <<>> /\ RefNamedDay(f[key]) = {}
           THEN out = <<>>
           ELSE /\ Len(out) = 2
                /\ out[1].e = "update:modelValue"
                /\ out[1].value =
                       {[f EXCEPT !.transactionsDateFrom = RefConverted(f.transactionsDateFrom),
                                  !.transactionsDateTo = RefConverted(f.transactionsDateTo)]}
                /\ out[2].e = "search"

\* a search from the first of February in Brazilian form to a day in ISO form
C21_Witness ==
    /\ ui.filters.clicks > 0
    /\ ui.filters.filters.transactionsDateFrom
          = <<"0", "1", "/", "0", "2", "/">> \o RefChar(Year \div 1000)
                \o RefChar((Year \div 100) % 10) \o RefChar((Year \div 10) % 10)
                \o RefChar(Year % 10)
    /\ RefNamedDay(ui.filters.filters.transactionsDateTo) # {}
    /\ Len(ui.filters.bySearch) = 2
    /\ ValueOf(ui.filters.bySearch[1].value).transactionsDateFrom
          # ui.filters.filters.transactionsDateFrom

\* ---- the transaction form --------------------------------------------------------
\* C22: in edit mode a step that selects a product or switches the type issues
\* no cost lookup and leaves form.unitCost as it was
C22_EditModeFrame ==
    [][(/\ ui.form.isEditMode
        /\ ui'.form.isEditMode
        /\ \/ ui'.form.selectedProduct # ui.form.selectedProduct
           \/ ui'.form.isEntry # ui.form.isEntry)
       => /\ ui'.form.pending = ui.form.pending
          /\ ui'.form.loadingCost = ui.form.loadingCost
          /\ ui'.form.unitCost = ui.form.unitCost]_vars

\* an edited exit turned into an entry of another product, its cost untouched
C22_Witness ==
    /\ ui.form.isEditMode
    /\ ui.form.isEntry
    /\ ui.form.sku = SkuB
    /\ ui.form.unitCost # DefaultForm.unitCost
    /\ ui.form.pending = <<>>

\* C23: whenever form.isEntry changes to false (in a form that exists, not by
\* creating one) supplierId and supplierName become undefined, codNf becomes
\* empty and selectedSupplier null, while sku, product and quantity stay
C23_EntryFieldsReset ==
    [][(/\ ui.form.isEntry
        /\ ~ui'.form.isEntry
        /\ ~(\E c \in FormChoices : UseTransactionForm(c[1], c[2])))
       => /\ ui'.form.supplierId = Null
          /\ ui'.form.supplierName = Null
          /\ ui'.form.codNf = <<>>
          /\ ui'.form.selectedSupplier = Null
          /\ ui'.form.sku = ui.form.sku
          /\ ui'.form.product = ui.form.product
          /\ ui'.form.quantity = ui.form.quantity]_vars

\* an entry of SkuA with supplier, invoice number and quantity turned into an exit
C23_Witness ==
    /\ ui.form.cleared
    /\ ~ui.form.isEntry
    /\ ui.form.supplierId = Null
    /\ ui.form.codNf = <<>>
    /\ ui.form.selectedSupplier = Null
    /\ ui.form.sku = SkuA
    /\ ui.form.quantity = MaxQty

\* ---- the side menu's expansion ---------------------------------------------------
\* the value a component sees through the result it holds
SeenBy(component) == ui.sidemenu.heap[ValueOf(ui.sidemenu.used[component])]

\* false at first; toggleExpansion negates, expand gives true, collapse false
RECURSIVE RefExpanded(_)
RefExpanded(calls) ==
    IF calls = <<>> THEN FALSE
    ELSE LET last == calls[Len(calls)]
             before == RefExpanded(SubSeq(calls, 1, Len(calls) - 1))
         IN IF last = "toggleExpansion" THEN ~before ELSE last = "expand"

C25_OnSubmit ==
    [][(ui.login.pending # Null /\ ui'.login.pending = Null)
       => IF ui'.login.settled = "rejected"
          THEN /\ ui'.login.errorMessage # ""
               /\ (\E err \in ui'.login.rejection :
                        \E response \in err.response : response.status = 401)
                      => ui'.login.errorMessage
                            = "Usuario ou senha invalidos. Por favor, tente novamente."
               /\ ui'.login.password = ""
               /\ ui'.login.route = ui.login.route
               /\ ~ui'.login.loading
          ELSE /\ ui'.login.settled = "resolved"
               /\ ui'.login.route = "/"
               /\ ui'.login.errorMessage = ""
               /\ ~ui'.login.loading]_vars

\* a login with a password typed was rejected with 401
C25_Witness ==
    /\ ui.login.settled = "rejected"
    /\ \E err \in ui.login.rejection : \E response \in err.response : response.status = 401
    /\ ui.login.username # ""
    /\ ui.login.password = ""
    /\ ui.login.errorMessage # ""
    /\ ui.login.route = LoginPath

\* ---- snapshots and later transactions ---------------------------------------------
\* the transactions appended since the remembered call that the current call saw
Appended == (Len(kept.ledger) + 1)..call.rows

\* none of them is a transaction of sku dated on or before the date dt
Irrelevant(sku, dt) ==
    \A i \in Appended : ledger[i].cod_sku # sku \/ Ord(ledger[i].data) > Ord(dt)

KeptSnapshots == {kept.call.results[k] : k \in 1..Len(kept.call.results)}

\* C26: the snapshot of an item as of a date depends only on the item's
\* transactions dated on or before it: after appending transactions dated
\* later, or of other items, a call as of the same date returns the same
\* snapshot of the item (and, for the same filters, returns one exactly if the
\* earlier call did)
C26_OwnPastOnly ==
    ( /\ kept # NoKept
      /\ Ok200
      /\ call.stock_date = kept.call.stock_date
      /\ items = kept.items
      /\ Len(kept.ledger) <= call.rows )
    => \A sku \in Skus :
          Irrelevant(sku, AsOf) =>
              /\ \A s \in Snapshots, t \in KeptSnapshots :
                    (s.sku = sku /\ t.sku = sku) => s = t
              /\ call.req = kept.call.req =>
                    ((\E s \in Snapshots : s.sku = sku)
                        <=> (\E t \in KeptSnapshots : t.sku = sku))

\* SkuA in stock at a remembered call, then a transaction of SkuA dated after
\* the date asked for, and the same snapshot of SkuA in a later call
C26_Witness ==
    /\ kept # NoKept
    /\ kept.later >= 1
    /\ Ok200
    /\ call.stock_date = kept.call.stock_date
    /\ Irrelevant(SkuA, AsOf)
    /\ \E i \in Appended : ledger[i].cod_sku = SkuA
    /\ \E s \in Snapshots : s.sku = SkuA /\ s.quantity # 0 /\ s \in KeptSnapshots

\* ---- exits at the average cost ---------------------------------------------------
\* the current call saw one transaction more than the remembered call: an exit,
\* dated within the date asked for, of less than the item's positive stock t,
\* at a unit value equal to the item's average cost in t
ExitAtAverage(t) ==
    /\ call.rows = Len(kept.ledger) + 1
    /\ LET x == ledger[call.rows]
       IN /\ x.tipo = "saida"
          /\ x.cod_sku = t.sku
          /\ Ord(x.data) <= Ord(AsOf)
          /\ t.quantity > 0
          /\ x.quantidade < t.quantity
          /\ x.valor_unit * DecimalScale = t.unit_cost

\* C27: an exit of less than the whole positive stock of an item, at a unit
\* value equal to the item's average cost immediately before it, leaves the
\* item's average cost as it was
C27_AveragePreserved ==
    ( /\ kept # NoKept
      /\ Ok200
      /\ call.stock_date = kept.call.stock_date
      /\ items = kept.items )
    => \A t \in KeptSnapshots :
          ExitAtAverage(t) =>
              \E s \in Snapshots :
                  /\ s.sku = t.sku
                  /\ s.quantity = t.quantity - ledger[call.rows].quantidade
                  /\ s.unit_cost = t.unit_cost

\* entries at different unit values, then an exit at their average
C27_Witness ==
    /\ kept # NoKept
    /\ Ok200
    /\ call.stock_date = kept.call.stock_date
    /\ \E t \in KeptSnapshots :
          /\ ExitAtAverage(t)
          /\ \E i, j \in 1..Len(kept.ledger) :
                /\ ledger[i].tipo = "entrada" /\ ledger[j].tipo = "entrada"
                /\ ledger[i].valor_unit # ledger[j].valor_unit
          /\ \E s \in Snapshots : s.sku = t.sku /\ s.unit_cost = t.unit_cost

====
